---- MODULE Spec2Model ----
(***************************************************************************)
(* The video job orchestrator of services/backend (VideoJobManager in      *)
(* services/pipeline/job_manager.py) and the HTTP handler that submits to  *)
(* it (create_video_job in main.py), as a state machine.                   *)
(*                                                                         *)
(* Threads: the request threads of the web server, each of them running    *)
(* create_video_job -> submit, and the single worker thread running        *)
(* _worker_loop -> _run_job.  The job table `jobs` is the dict protected   *)
(* by self.lock: every access the manager makes to it (an insert in        *)
(* submit, a lookup in get, one _update call) holds the lock for the whole *)
(* access and is one step here.  A VideoJob is a shared mutable object: a  *)
(* caller that got one from submit reads its fields later, without the     *)
(* lock, and that read is a step of its own.                               *)
(*                                                                         *)
(* Every call that leaves the process (provider request, subprocess, file  *)
(* system) is a nondeterministic choice over the outcomes it can have.     *)
(*                                                                         *)
(* Further views, each with a specification of its own over the same Init: *)
(* the timeline compiler of services/editor/exporter.py (EditorSpec,       *)
(* RecompileSpec), the holders of self.lock statement by statement         *)
(* (LockSpec), wait_for_sd_on_demand of main.py in front of submit         *)
(* (ReadySpec), the handlers of services/sd_host/app.py (SdHostSpec) and   *)
(* the poll loop of _generate_video_replicate with its time (PollSpec).    *)
(***************************************************************************)
EXTENDS Integers, Sequences, FiniteSets, TLC

\* ------------------------------------------------------------------ bounds

\* How many jobs are ever submitted (uuid4 ids are modelled as 1..MaxJobs).
MaxJobs == 2

\* How many times the remote poll loop may find the prediction still running
\* before its total wait is used up (900 s at 3 s per poll in the source).
MaxPolls == 2

\* The request threads that may run create_video_job concurrently.  They are
\* interchangeable: a call in flight is known by the job id it made.
Threads == {"t1", "t2"}

\* The threads that use self.lock: the request threads and the worker.
LockUsers == Threads \cup {"worker"}

\* The threads of the image provider's server that run its sync handlers.
HostThreads == {"g1", "g2"}

JobIds == 1..MaxJobs

\* The clock advances in ticks of a fraction of a second, up to MaxClock ticks.
TicksPerSecond == 2
MaxClock == 4

\* The largest limit list_recent is called with.
MaxLimit == 2

\* The most words a narration has.
MaxWords == 120

\* The most clips an export request has in all its tracks, and the tracks it
\* has of each kind (video, audio, text).
MaxClips == 2
MaxTracks == 2

\* _generate_video_replicate: the total wait of the poll loop (line 195), the
\* sleep between two polls (line 211) and the timeout of one poll (line 196),
\* in seconds.
PollTimeoutSeconds == 900
PollIntervalSeconds == 3
PollRequestTimeoutSeconds == 30

\* The polls of the provider's health after which wait_for_sd_on_demand has
\* used up its timeout.
MaxHealthPolls == 2

None == "None"

\* ------------------------------------------------------------------ state

VARIABLES
    jobs,             \* self.jobs: job id -> VideoJob (the fields _update writes)
    inputs,           \* job id -> the fields of the VideoJob only _run_job reads
    queue,            \* self.queue: FIFO of job ids
    unfinished_tasks, \* Queue.unfinished_tasks (put increments, task_done decrements)
    stop_event,       \* self.stop_event
    next_id,          \* the next fresh id uuid4 hands out
    requests,         \* the create_video_job calls in flight: job id -> position
    wpc,              \* the worker's position in _worker_loop / _run_job
    job_id,           \* worker local: the job id dequeued (0: none)
    job,              \* worker local of _run_job: the VideoJob it looked up
    video_path,       \* worker local of _run_job
    video_provider,   \* worker local of _run_job
    audio_path,       \* worker local of _run_job
    audio_provider,   \* worker local of _run_job
    exc,              \* the exception in flight in the worker (None: none)
    polls,            \* iterations of the remote poll loop so far
    calls,            \* history: the external calls made for the job in the worker
    remote_failed,    \* history: _generate_video_replicate raised for this job
    audio_env,        \* history: what the audio providers did for this job
    muxed,            \* history: the <<video, audio>> files handed to the mux
    returned,         \* history: ids whose submit() has returned
    precedes,         \* history: <<a, b>>: submit(a) returned before submit(b) was called
    started,          \* history: job ids in the order the worker dequeued them
    clock,            \* time.time(), in whole seconds
    created_at,       \* job id -> the created_at of the VideoJob (set once, by submit)
    listed,           \* the last result of list_recent: job ids, in the order returned
    narration_words,  \* len(text.split()) of the narration last estimated
    duration_seconds, \* the last result of _estimate_duration_seconds
    payload,          \* the export request: data.model_dump() of a ProjectExportRequest
    epc,              \* the export request's position in export_editor_project
    compiled,         \* what export_project has computed for the request
    exports,          \* the "exports" list of the asset store's index
    previous,         \* what export_project computed for the request before this one
    lock,             \* self.lock: the thread that holds it (None: free)
    lpc,              \* thread -> its position in submit, get, list_recent, _update
    model_loaded,     \* the image provider's model_loaded flag
    sd_wait,          \* polls made -> the wait_for_sd_on_demand calls in their loop
    admitted,         \* the wait_for_sd_on_demand calls of create_video_job that returned
    ready_seen,       \* history: the calls that got status ok from the provider's health
    pipe,             \* the image provider's pipe (None until from_pretrained returned)
    pipe_lock,        \* the image provider's pipe_lock: the thread that holds it
    gpc,              \* provider thread -> its position in generate
    answered,         \* provider thread -> the answer to the request it handled last
    ppc,              \* the position in the poll loop of _generate_video_replicate
    poll_elapsed,     \* time.time() - start of the poll loop, in seconds
    poll_count,       \* the sleeps of the poll loop so far
    poll_outcome,     \* what the last poll found (or that the loop timed out)
    shared_job,       \* the VideoJob object submit made (<<>> before the submit)
    pending,          \* the keywords the _update under way has still to set
    last_call,        \* the _update call the worker made last
    spc,              \* the position of a request thread in get_job / serialize_job
    data              \* the dict serialize_job is building

vars == <<jobs, inputs, job, queue, unfinished_tasks, stop_event, next_id, requests,
          wpc, job_id, video_path, video_provider, audio_path, audio_provider,
          exc, polls, calls, remote_failed, audio_env, muxed, returned, precedes,
          started, clock, created_at, listed, narration_words, duration_seconds,
          payload, epc, compiled, exports, previous, lock, lpc,
          model_loaded, sd_wait, admitted, ready_seen, pipe, pipe_lock, gpc,
          answered, ppc, poll_elapsed, poll_count, poll_outcome,
          shared_job, pending, last_call, spc, data>>

clientVars == <<next_id, requests, returned, precedes>>
localVars  == <<video_path, video_provider, audio_path, audio_provider>>
histVars   == <<calls, remote_failed, audio_env, muxed>>
estimateVars == <<narration_words, duration_seconds>>
editorVars == <<payload, epc, compiled, exports, previous>>
lockVars == <<lock, lpc>>
sdVars == <<model_loaded, sd_wait, admitted, ready_seen>>
hostVars == <<pipe, pipe_lock, gpc, answered>>
pollVars == <<ppc, poll_elapsed, poll_count, poll_outcome>>
snapVars == <<shared_job, pending, last_call, spc, data>>

\* The state of the closer views of single parts of the program.
sideVars == <<lockVars, sdVars, hostVars, pollVars, snapVars>>


\* What the job orchestrator's own steps never touch: the clock, the results
\* handed to callers of the read-only functions, and the editor.
restVars == <<clock, listed, estimateVars, editorVars, sideVars>>

\* The orchestrator's state, which the editor's steps never touch.
managerVars == <<jobs, inputs, job, queue, unfinished_tasks, stop_event, next_id,
                 requests, wpc, job_id, video_path, video_provider, audio_path,
                 audio_provider, exc, polls, calls, remote_failed, audio_env, muxed,
                 returned, precedes, started, created_at>>

\* What the steps of the closer view of the lock never touch.
notLockVars == <<managerVars, clock, listed, estimateVars, editorVars, sdVars,
                 hostVars, pollVars, snapVars>>

\* What the steps of the image provider and of the wait for it never touch.
notSdVars == <<clock, listed, estimateVars, editorVars, lockVars, hostVars,
               pollVars, snapVars>>

\* What the steps of the image provider's generate never touch.
notHostVars == <<managerVars, clock, listed, estimateVars, editorVars, lockVars,
                 sd_wait, admitted, ready_seen, pollVars, snapVars>>

\* What the steps of the closer view of the poll loop never touch.
notPollVars == <<managerVars, clock, listed, estimateVars, editorVars, lockVars,
                 sdVars, hostVars, snapVars>>

\* What the steps of the closer view of _update and serialize_job never touch.
notSnapVars == <<managerVars, clock, listed, estimateVars, editorVars, lpc,
                 sdVars, hostVars, pollVars>>

\* ------------------------------------------------------------- the VideoJob

\* _iso_now: the time formatted to the second (the fraction is dropped); the
\* formatted strings compare as the whole seconds do.
iso_now == clock \div TicksPerSecond

\* VideoJob(...) as submit builds it: status queued, progress 0, stage queued,
\* the optional fields at their default None.  The two flags of the job are
\* set once, here, and read by _run_job alone (through its local `job`), so
\* they are kept apart from the fields that change: in `inputs` until the
\* worker takes the job, in the worker's `job` while it runs.
NewJob ==
    [status         |-> "queued",
     progress       |-> 0,
     stage          |-> "queued",
     error          |-> None,
     output_path    |-> None,
     video_provider |-> None,
     audio_provider |-> None]

\* The worker holds no job.
NoJob == [use_replicate |-> FALSE, use_elevenlabs |-> FALSE]

\* _update's loop: setattr(job, key, value) for every keyword given.
SetAttrs(obj, kwargs) ==
    [f \in DOMAIN obj |-> IF f \in DOMAIN kwargs THEN kwargs[f] ELSE obj[f]]

\* _update(job_id, **kwargs): under the lock, the job of the table takes the
\* keyword values.
update(id, kwargs) ==
    jobs' = [jobs EXCEPT ![id] = SetAttrs(@, kwargs)]

\* serialize_job has read nothing yet.
NoData ==
    [via |-> None, status |-> None, progress |-> None, stage |-> None,
     error |-> None, video_provider |-> None, audio_provider |-> None,
     download_url |-> None]

\* ------------------------------------------------------ exception messages

\* str(e) of what a stage can raise.
ErrMkdir        == "makedirs failed"
ErrLocalRequest == "local image request failed"
ErrNoImage      == "Image service returned no image data"
ErrLocalVideo   == "Failed to generate local video"
ErrNarration    == "Failed to generate local narration"
ErrSilent       == "Failed to generate fallback audio"
ErrMux          == "Failed to mux output video"

LocalErrors == {ErrLocalRequest, ErrNoImage, ErrLocalVideo}
AudioErrors == {ErrNarration, ErrSilent}
Errors      == {ErrMkdir, ErrMux} \cup LocalErrors \cup AudioErrors

\* ------------------------------------------------------------- audio stage

\* What the three audio providers do for one job: the remote narration request,
\* shutil.which("espeak-ng") and the run of the binary, the silent ffmpeg run.
\* A provider the code does not get to is "unused".
NoAudioEnv == [elevenlabs |-> "unused", espeak |-> "unused", silent |-> "unused"]

AudioEnvs(use_elevenlabs) ==
    {env \in [elevenlabs : {"ok", "fail", "unused"},
              espeak     : {"absent", "ok", "fail", "unused"},
              silent     : {"ok", "fail", "unused"}] :
        /\ (env.elevenlabs = "unused") <=> ~use_elevenlabs
        /\ (env.espeak = "unused") <=> (env.elevenlabs = "ok")
        /\ (env.silent = "unused") <=> (env.espeak # "absent")}

\* _generate_audio: the remote narration inside try/except, then espeak-ng when
\* the binary is on the PATH, else the silent track.  raised is the exception
\* that leaves the function, None when it returns (path, provider).
generate_audio(use_elevenlabs, env) ==
    IF use_elevenlabs /\ env.elevenlabs = "ok"
    THEN [path |-> "audio_elevenlabs.mp3", provider |-> "elevenlabs", raised |-> None]
    ELSE IF env.espeak # "absent"      \* shutil.which found the binary
    THEN IF env.espeak = "ok"
         THEN [path |-> "audio_espeak.wav", provider |-> "espeak-ng", raised |-> None]
         ELSE [path |-> None, provider |-> None, raised |-> ErrNarration]
    ELSE IF env.silent = "ok"
         THEN [path |-> "audio_silent.m4a", provider |-> "silent", raised |-> None]
         ELSE [path |-> None, provider |-> None, raised |-> ErrSilent]

\* The external calls _generate_audio makes on the way, in order.
audio_calls(use_elevenlabs, env) ==
    (IF use_elevenlabs THEN <<"elevenlabs">> ELSE <<>>)
    \o (IF use_elevenlabs /\ env.elevenlabs = "ok" THEN <<>>
        ELSE IF env.espeak # "absent" THEN <<"espeak-ng">> ELSE <<"silent">>)

\* ------------------------------------------------------------------ editor

\* Times are in milliseconds.  An Optional[float] is <<>> when None and <<v>>
\* when set; an Optional[str] text likewise.  An unset asset_id is None.

Max2(a, b) == IF a > b THEN a ELSE b
Min2(a, b) == IF a < b THEN a ELSE b

\* The index of the asset store (EditorAssetStore.list_assets): what _probe_media
\* found for each uploaded file.
assets ==
    [a \in {"vid", "mute", "aud"} |->
        [has_video |-> a \in {"vid", "mute"}, has_audio |-> a \in {"vid", "aud"}]]

\* store.get_asset(asset_id) finds an asset.
resolves(asset_id) == asset_id \in DOMAIN assets

\* A TimelineClip as model_dump gives it: every key present, the unset optional
\* ones None.  (in_point, volume, font_size, color, x and y are left out.)
Clip(asset_id, start, duration, transition_in, transition_out, text, end) ==
    [asset_id |-> asset_id, start |-> start, duration |-> duration,
     transition_in |-> transition_in, transition_out |-> transition_out,
     text |-> text, end |-> end]

\* The clips a request puts on a video track: a plain one, one with an
\* oversized fade-out, one with a negative start, a duration under 0.1 s and an
\* oversized fade-in, one with a negative duration and a negative fade-in, one
\* with a negative start and a duration longer than what is left after 0, then
\* plain clips of the other assets, of no asset and of an asset not in the store.
VideoClips ==
    {Clip("vid",       0,     5000,  0,    0,    <<>>, <<>>),
     Clip("vid",       2000,  4000,  1000, 9000, <<>>, <<>>),
     Clip("vid",       -1000, 50,    500,  0,    <<>>, <<>>),
     Clip("vid",       0,     -2000, -500, 300,  <<>>, <<>>),
     Clip("vid",       -2000, 4000,  0,    0,    <<>>, <<>>),
     Clip("mute",      1000,  4000,  0,    0,    <<>>, <<>>),
     Clip("aud",       0,     4000,  0,    0,    <<>>, <<>>),
     Clip(None,        0,     4000,  0,    0,    <<>>, <<>>),
     Clip("missing-1", 0,     4000,  0,    0,    <<>>, <<>>)}

\* The clips a request puts on an audio track.
AudioClips ==
    {Clip("aud",       0,     4000,  0, 0, <<>>, <<>>),
     Clip("vid",       3000,  6000,  0, 0, <<>>, <<>>),
     Clip("mute",      0,     4000,  0, 0, <<>>, <<>>),
     Clip(None,        0,     4000,  0, 0, <<>>, <<>>),
     Clip("missing-2", 0,     4000,  0, 0, <<>>, <<>>)}

\* ProjectExportRequest.height: the default (main.py, line 116).
height == 720

\* TimelineClip.x: the default (main.py, line 105).
default_x == 40

\* A TimelineClip of a text track as model_dump gives it: duration is the
\* default 3.0, x is an int, y is None when unset.
TextClip(start, text, end, x, y) ==
    Clip(None, start, 3000, 0, 0, text, end) @@ [x |-> x, y |-> y]

\* The clips a request puts on a text track.
TextClips ==
    {TextClip(0,    <<"hi">>, <<3000>>, default_x, <<>>),
     TextClip(0,    <<"hi">>, <<>>,     default_x, <<>>),
     TextClip(2000, <<"hi">>, <<1000>>, 10,        <<100>>),
     TextClip(1000, <<"hi">>, <<9000>>, default_x, <<>>),
     TextClip(0,    <<"">>,   <<3000>>, default_x, <<>>),
     TextClip(0,    <<" ">>,  <<3000>>, default_x, <<>>),
     TextClip(0,    <<>>,     <<3000>>, default_x, <<>>),
     TextClip(0,    <<>>,     <<>>,     default_x, <<>>)}

\* The values a request declares as its duration (besides leaving it unset).
DeclaredDurations == {0, 500, 10000}

NoTracks == [t \in 1..MaxTracks |-> <<>>]

\* ProjectExportRequest().model_dump() of a request with no clip.
EmptyPayload ==
    [duration |-> <<>>, video_tracks |-> NoTracks, audio_tracks |-> NoTracks,
     text_tracks |-> NoTracks]

\* _collect_clips: the clips of the tracks in track order, each with its
\* _track_index and _clip_index (counted from 0).
RECURSIVE collect_from(_, _)
collect_from(tracks, t) ==
    IF t > Len(tracks) THEN <<>>
    ELSE [c \in 1..Len(tracks[t]) |->
             [clip |-> tracks[t][c], track_index |-> t - 1, clip_index |-> c - 1]]
         \o collect_from(tracks, t + 1)

collect_clips(tracks) == collect_from(tracks, 1)

\* _clip_end.
clip_end(clip) == clip.start + clip.duration

\* Lines 197-199: max_end = 1.0, then the max with every clip's end.
RECURSIVE max_end_from(_, _, _)
max_end_from(clips, i, max_end) ==
    IF i > Len(clips) THEN max_end
    ELSE max_end_from(clips, i + 1, Max2(max_end, clip_end(clips[i].clip)))

\* A duration that ignores the clips when the request declares one.
resolve_duration_declared_wins(declared, max_end) ==
    IF declared # <<>> /\ declared[1] # 0 THEN declared[1] ELSE max_end

\* Lines 200-201: duration = float(payload.get("duration") or max_end);
\* duration = max(duration, max_end, 1.0).
resolve_duration(declared, max_end) ==
    LET duration == IF declared # <<>> /\ declared[1] # 0
                    THEN declared[1] ELSE max_end
    IN  Max2(Max2(duration, max_end), 1000)

NoError == [kind |-> "none", detail |-> None]
EmptyProjectError ==
    [kind |-> "RuntimeError",
     detail |-> "Project must include at least one video or text clip"]
AssetNotFoundError(asset_id) ==
    [kind |-> "RuntimeError: Asset not found", detail |-> asset_id]
EndTypeError == [kind |-> "TypeError", detail |-> "float(None)"]
RenderError == [kind |-> "RuntimeError", detail |-> "Failed to export project"]

\* Lines 203-213: the assets of the video clips, then of the audio clips, each
\* once, in the order first met; the first one the store does not have raises.
RECURSIVE collect_inputs(_, _, _)
collect_inputs(clips, i, input_specs) ==
    IF i > Len(clips) THEN [error |-> NoError, input_specs |-> input_specs]
    ELSE LET asset_id == clips[i].clip.asset_id
         IN  IF asset_id = None \/ asset_id = ""
             THEN collect_inputs(clips, i + 1, input_specs)
             ELSE IF \E k \in DOMAIN input_specs : input_specs[k] = asset_id
             THEN collect_inputs(clips, i + 1, input_specs)
             ELSE IF ~resolves(asset_id)
             THEN [error |-> AssetNotFoundError(asset_id), input_specs |-> input_specs]
             ELSE collect_inputs(clips, i + 1, Append(input_specs, asset_id))

\* An input map that counts from 0, as if there were no synthetic inputs.
input_index_from_zero(input_specs, asset_id) ==
    (CHOOSE k \in DOMAIN input_specs : input_specs[k] = asset_id) - 1

\* Lines 229-234: input_map[asset_id], the renderer input of an asset (0 and 1
\* are the two synthetic inputs).
input_index(input_specs, asset_id) ==
    1 + CHOOSE k \in DOMAIN input_specs : input_specs[k] = asset_id

\* Python's order of tuples: by the first place where they differ.
tuple_before(x, y) ==
    \E n \in DOMAIN x : x[n] < y[n] /\ \A m \in 1..(n - 1) : x[m] = y[m]

\* sorted(clips, key=...): ascending by keys[k], the key of clips[k], and
\* stable: clips with equal keys keep their order.
sorted(clips, keys) ==
    LET place(i) == 1 + Cardinality({k \in DOMAIN clips :
                           \/ tuple_before(keys[k], keys[i])
                           \/ keys[k] = keys[i] /\ k < i})
    IN  [q \in DOMAIN clips |-> clips[CHOOSE i \in DOMAIN clips : place(i) = q]]

\* A key that puts the start before the track.
video_key_start_first(item) == <<item.clip.start, item.track_index, item.clip_index>>

\* key=lambda c: (c["_track_index"], c.get("start", 0), c["_clip_index"])
video_key(item) == <<item.track_index, item.clip.start, item.clip_index>>

\* key=lambda c: (c.get("start", 0), c["_track_index"], c["_clip_index"])
text_key(item) == <<item.clip.start, item.track_index, item.clip_index>>

\* sorted(clips, key=...) of lines 243 and 286.
ordered_by_track(clips) ==
    sorted(clips, [k \in DOMAIN clips |-> video_key(clips[k])])

\* sorted(text_clips, key=...) of line 313.
ordered_by_start(clips) ==
    sorted(clips, [k \in DOMAIN clips |-> text_key(clips[k])])

\* One entry of filter_parts: the operation, the labels it reads, the label it
\* writes, and its times (0 where the operation has none).
Node(op, ins, out, from, to, fade_in, fade_out) ==
    [op |-> op, ins |-> ins, out |-> out, from |-> from, to |-> to,
     fade_in |-> fade_in, fade_out |-> fade_out]

\* A background label numbered by the exports made so far.
vbase_per_export == <<"vbase", Len(exports)>>

vbase == <<"vbase", 0>>
abase == <<"abase", 0>>
aout  == <<"aout", 0>>

\* Lines 236-241: the background and the silent base.
base_parts ==
    <<Node("background", <<<<"0:v", 0>>>>, vbase, 0, 0, 0, 0),
      Node("silence",    <<<<"1:a", 0>>>>, abase, 0, 0, 0, 0)>>

\* A clamp that forgets the lower bound.
clamp_transition_upper_only(transition, clip_duration) ==
    Min2(transition, clip_duration \div 2)

\* Lines 257-258: max(0.0, min(float(transition), clip_duration / 2)).
clamp_transition(transition, clip_duration) ==
    Max2(0, Min2(transition, clip_duration \div 2))

\* The state of the loops over the clips: the composite so far, the parts and
\* the audio labels.
Chain(current, parts, audio_labels) ==
    [current |-> current, parts |-> parts, audio_labels |-> audio_labels]

\* A loop that skips only the clips with no asset id.
video_clip_skipped_only_unset(clip) ==
    clip.asset_id = None \/ clip.asset_id = ""

\* A video clip is skipped by lines 245-252.
video_clip_skipped(clip) ==
    \/ clip.asset_id = None \/ clip.asset_id = ""
    \/ ~resolves(clip.asset_id)
    \/ ~assets[clip.asset_id].has_video

\* Lines 244-284, one pass of the loop over ordered_video (idx from enumerate).
video_step(item, idx, input_specs, chain) ==
    IF video_clip_skipped(item.clip) THEN chain
    ELSE LET clip == item.clip
             clip_duration == Max2(100, clip.duration)
             start_time == Max2(0, clip.start)
             end_time == start_time + clip_duration
             transition_in == clamp_transition(clip.transition_in, clip_duration)
             transition_out == clamp_transition(clip.transition_out, clip_duration)
             source_idx == input_index(input_specs, clip.asset_id)
             vclip_label == <<"vclip", idx>>
             out_label == <<"vtmp", idx>>
             has_audio == assets[clip.asset_id].has_audio
         IN  Chain(out_label,
                   chain.parts \o
                   <<Node("prepare", <<<<"v", source_idx>>>>, vclip_label,
                          0, clip_duration, transition_in, transition_out),
                     Node("overlay", <<chain.current, vclip_label>>, out_label,
                          start_time, end_time, 0, 0)>>
                   \o (IF has_audio
                       THEN <<Node("audio", <<<<"a", source_idx>>>>, <<"av", idx>>,
                                   start_time, start_time + clip_duration, 0, 0)>>
                       ELSE <<>>),
                   chain.audio_labels \o
                   (IF has_audio THEN <<<<"av", idx>>>> ELSE <<>>))

RECURSIVE video_loop(_, _, _, _)
video_loop(ordered_video, i, input_specs, chain) ==
    IF i > Len(ordered_video) THEN chain
    ELSE video_loop(ordered_video, i + 1, input_specs,
                    video_step(ordered_video[i], i - 1, input_specs, chain))

\* A loop over the audio clips that does not ask whether the asset has audio.
audio_step_any_asset(item, idx, input_specs, chain) ==
    LET clip == item.clip
    IN  IF clip.asset_id = None \/ clip.asset_id = "" \/ ~resolves(clip.asset_id)
        THEN chain
        ELSE Chain(chain.current,
                   Append(chain.parts,
                          Node("audio",
                               <<<<"a", input_index(input_specs, clip.asset_id)>>>>,
                               <<"aa", idx>>, Max2(0, clip.start),
                               Max2(0, clip.start) + Max2(100, clip.duration), 0, 0)),
                   Append(chain.audio_labels, <<"aa", idx>>))

\* Lines 287-304, one pass of the loop over ordered_audio.
audio_step(item, idx, input_specs, chain) ==
    LET clip == item.clip
    IN  IF clip.asset_id = None \/ clip.asset_id = "" THEN chain
        ELSE IF ~resolves(clip.asset_id) \/ ~assets[clip.asset_id].has_audio
        THEN chain
        ELSE LET clip_duration == Max2(100, clip.duration)
                 start_time == Max2(0, clip.start)
                 source_idx == input_index(input_specs, clip.asset_id)
             IN  Chain(chain.current,
                       Append(chain.parts,
                              Node("audio", <<<<"a", source_idx>>>>, <<"aa", idx>>,
                                   start_time, start_time + clip_duration, 0, 0)),
                       Append(chain.audio_labels, <<"aa", idx>>))

RECURSIVE audio_loop(_, _, _, _)
audio_loop(ordered_audio, i, input_specs, chain) ==
    IF i > Len(ordered_audio) THEN chain
    ELSE audio_loop(ordered_audio, i + 1, input_specs,
                    audio_step(ordered_audio[i], i - 1, input_specs, chain))

\* The options of the amix filter of line 310.
amix_options(audio_labels) ==
    [inputs |-> Len(audio_labels), normalize |-> 0, dropout_transition |-> 0]

\* A pass-through of the base when there is one source besides it.
mix_part_one_source(audio_labels) ==
    IF Len(audio_labels) = 2
    THEN Node("anull", <<abase>>, aout, 0, 0, 0, 0)
    ELSE Node("amix", audio_labels, aout, 0, 0, 0, 0) @@ amix_options(audio_labels)

\* Lines 306-310: the base alone passes through, else one mix of all labels.
mix_part(audio_labels) ==
    IF Len(audio_labels) = 1
    THEN Node("anull", <<abase>>, aout, 0, 0, 0, 0)
    ELSE Node("amix", audio_labels, aout, 0, 0, 0, 0) @@ amix_options(audio_labels)

\* str.strip() of the texts the requests carry.
strip(text) == IF text = " " THEN "" ELSE text

\* Line 315: str(clip.get("text", "")).strip(); the key is always there, and
\* str(None) is the word None.
clip_text(clip) == IF clip.text = <<>> THEN "None" ELSE strip(clip.text[1])

\* Lines 322-325: x and y of the text, y at height - 80 when it is None (x is
\* never None in a dumped TimelineClip).
drawtext_position(clip) ==
    [x |-> clip.x, y |-> IF clip.y = <<>> THEN height - 80 ELSE clip.y[1]]

\* Lines 314-331, one pass of the loop over ordered_text; error is set when
\* float(clip.get("end", ...)) is given the None of an unset end.
text_step(item, idx, state) ==
    LET clip == item.clip
        text == clip_text(clip)
    IN  IF state.error # NoError \/ text = "" THEN state
        ELSE IF clip.end = <<>>
        THEN [state EXCEPT !.error = EndTypeError]
        ELSE LET start_time == Max2(0, clip.start)
                 end_time == Max2(start_time + 50, clip.end[1])
             IN  [error |-> NoError,
                  chain |-> Chain(<<"vtxt", idx>>,
                                  Append(state.chain.parts,
                                         Node("drawtext", <<state.chain.current>>,
                                              <<"vtxt", idx>>, start_time, end_time,
                                              0, 0) @@ drawtext_position(clip)),
                                  state.chain.audio_labels)]

RECURSIVE text_loop(_, _, _)
text_loop(ordered_text, i, state) ==
    IF i > Len(ordered_text) THEN state
    ELSE text_loop(ordered_text, i + 1, text_step(ordered_text[i], i - 1, state))

\* What export_project has got to for a request: the line it raised at or
\* returned from (reached), the exception, and what it had computed by then.
Compiled(reached, error, duration, input_specs, filter_parts, video_out, rendered) ==
    [reached |-> reached, error |-> error, duration |-> duration,
     input_specs |-> input_specs, filter_parts |-> filter_parts,
     video_out |-> video_out, rendered |-> rendered]

NotCompiled == Compiled("none", NoError, 0, <<>>, <<>>, <<"none", 0>>, FALSE)

\* A compile that lets a project of audio clips only through.
empty_project_if_nothing(video_clips, audio_clips, text_clips) ==
    video_clips = <<>> /\ audio_clips = <<>> /\ text_clips = <<>>

\* Line 194: if not video_clips and not text_clips.
empty_project(video_clips, audio_clips, text_clips) ==
    video_clips = <<>> /\ text_clips = <<>>

\* A lookup of the inputs that skips an asset the store does not have.
first_input_error_ignored(lookup) == NoError

\* Lines 211-212: the exception of the lookup of the inputs, if any.
first_input_error(lookup) == lookup.error

\* export_project(payload, store); render_ok is whether the ffmpeg run of line
\* 362 exits with 0.
export_project(p, render_ok) ==
    LET video_clips == collect_clips(p.video_tracks)
        audio_clips == collect_clips(p.audio_tracks)
        text_clips == collect_clips(p.text_tracks)
        max_end == max_end_from(video_clips \o audio_clips \o text_clips, 1, 1000)
        duration == resolve_duration(p.duration, max_end)
        lookup == collect_inputs(video_clips \o audio_clips, 1, <<>>)
        input_specs == lookup.input_specs
        after_video == video_loop(ordered_by_track(video_clips), 1,
                                  input_specs, Chain(vbase, base_parts, <<abase>>))
        after_audio == audio_loop(ordered_by_track(audio_clips), 1,
                                  input_specs, after_video)
        mixed == Chain(after_audio.current,
                       Append(after_audio.parts, mix_part(after_audio.audio_labels)),
                       after_audio.audio_labels)
        after_text == text_loop(ordered_by_start(text_clips), 1,
                                [error |-> NoError, chain |-> mixed])
    IN  IF empty_project(video_clips, audio_clips, text_clips)
        THEN Compiled("line 195", EmptyProjectError, 0, <<>>, <<>>, <<"none", 0>>, FALSE)
        ELSE IF first_input_error(lookup) # NoError
        THEN Compiled("line 212", first_input_error(lookup), duration, <<>>, <<>>,
                      <<"none", 0>>, FALSE)
        ELSE IF after_text.error # NoError
        THEN Compiled("line 319", after_text.error, duration, input_specs,
                      after_text.chain.parts, after_text.chain.current, FALSE)
        ELSE IF ~render_ok
        THEN Compiled("line 362", RenderError, duration, input_specs,
                      after_text.chain.parts, after_text.chain.current, TRUE)
        ELSE Compiled("line 363", NoError, duration, input_specs,
                      after_text.chain.parts, after_text.chain.current, TRUE)

\* ------------------------------------------------------------- list_recent

\* No list_recent call has returned yet.
NothingListed == [limit |-> 0, jobs |-> <<>>]

\* list(self.jobs.values()): the jobs in the order the dict got them, which is
\* the order of the inserts (ids are handed out at the insert).
values == [i \in 1..Cardinality(DOMAIN jobs) |-> i]

\* list.sort(key=..., reverse=True): descending by key, and stable, so entries
\* with equal keys keep the order they had.  The place of entry i of seq is
\* one more than the entries that go before it.
sort_reverse(seq, key) ==
    LET place(i) == 1 + Cardinality({k \in DOMAIN seq :
                           \/ key[seq[k]] > key[seq[i]]
                           \/ key[seq[k]] = key[seq[i]] /\ k < i})
    IN  [q \in DOMAIN seq |-> seq[CHOOSE i \in DOMAIN seq : place(i) = q]]

\* list_recent(limit): values.sort(key=lambda x: x.created_at, reverse=True);
\* return values[:limit].
list_recent(limit) ==
    LET recent == sort_reverse(values, created_at)
    IN  SubSeq(recent, 1, IF limit < Len(recent) THEN limit ELSE Len(recent))

\* ---------------------------------------------------------------- Init

Init ==
    /\ jobs = <<>>
    /\ inputs = <<>>
    /\ job = NoJob
    /\ queue = <<>>
    /\ unfinished_tasks = 0
    /\ stop_event = FALSE
    /\ next_id = 1
    /\ requests = <<>>
    /\ wpc = "loop"
    /\ job_id = 0
    /\ video_path = None
    /\ video_provider = None
    /\ audio_path = None
    /\ audio_provider = None
    /\ exc = None
    /\ polls = 0
    /\ calls = <<>>
    /\ remote_failed = FALSE
    /\ audio_env = NoAudioEnv
    /\ muxed = <<None, None>>
    /\ returned = {}
    /\ precedes = {}
    /\ started = <<>>
    /\ clock = 0
    /\ created_at = <<>>
    /\ listed = NothingListed
    /\ narration_words = 0
    /\ duration_seconds = 0
    /\ payload = EmptyPayload
    /\ epc = "editing"
    /\ compiled = NotCompiled
    /\ exports = <<>>
    /\ previous = NotCompiled
    /\ lock = None
    /\ lpc = [u \in LockUsers |-> IF u = "worker" THEN "queue_get" ELSE "idle"]
    /\ model_loaded = FALSE
    /\ sd_wait = [n \in 0..MaxHealthPolls |-> 0]
    /\ admitted = 0
    /\ ready_seen = 0
    /\ pipe = None
    /\ pipe_lock = None
    /\ gpc = [g \in HostThreads |-> "idle"]
    /\ answered = [g \in HostThreads |-> "none"]
    /\ ppc = "post"
    /\ poll_elapsed = 0
    /\ poll_count = 0
    /\ poll_outcome = "none"
    /\ shared_job = <<>>
    /\ pending = <<>>
    /\ last_call = "none"
    /\ spc = 0
    /\ data = NoData

\* ------------------------------------------------- create_video_job / submit

\* submit, lines 71-85: a fresh id, the VideoJob object (the caller's two flags
\* are any booleans), and with self.lock: self.jobs[job_id] = job.  Building
\* the object touches nothing shared, so the call is one step up to the insert.
\* A request thread must be free to take the request.
SubmitInsert ==
    /\ next_id <= MaxJobs
    /\ Cardinality(DOMAIN requests) < Cardinality(Threads)
    /\ \E use_replicate \in BOOLEAN, use_elevenlabs \in BOOLEAN :
          inputs' = [j \in DOMAIN inputs \cup {next_id} |->
                       IF j = next_id
                       THEN [use_replicate |-> use_replicate,
                             use_elevenlabs |-> use_elevenlabs]
                       ELSE inputs[j]]
    /\ jobs' = [j \in DOMAIN jobs \cup {next_id} |->
                  IF j = next_id THEN NewJob ELSE jobs[j]]
    /\ requests' = [j \in DOMAIN requests \cup {next_id} |->
                      IF j = next_id THEN "inserted" ELSE requests[j]]
    /\ next_id' = next_id + 1
    /\ precedes' = precedes \cup {<<a, next_id>> : a \in returned}
    /\ created_at' = [j \in DOMAIN created_at \cup {next_id} |->
                        IF j = next_id THEN iso_now ELSE created_at[j]]
    /\ UNCHANGED <<restVars, job, queue, unfinished_tasks, stop_event, returned,
                   wpc, job_id, exc, polls, started, localVars, histVars>>

\* A put that adds at the head of the queue (a LIFO stack instead of a FIFO).
SubmitPutAtHead(j) ==
    /\ j \in DOMAIN requests
    /\ requests[j] = "inserted"
    /\ queue' = <<j>> \o queue
    /\ unfinished_tasks' = unfinished_tasks + 1
    /\ returned' = returned \cup {j}
    /\ requests' = [requests EXCEPT ![j] = "returned"]
    /\ UNCHANGED <<created_at, restVars, jobs, inputs, job, stop_event, next_id, precedes,
                   wpc, job_id, exc, polls, started, localVars, histVars>>

\* A put that adds the id twice.
SubmitPutTwice(j) ==
    /\ j \in DOMAIN requests
    /\ requests[j] = "inserted"
    /\ queue' = queue \o <<j, j>>
    /\ unfinished_tasks' = unfinished_tasks + 2
    /\ returned' = returned \cup {j}
    /\ requests' = [requests EXCEPT ![j] = "returned"]
    /\ UNCHANGED <<created_at, restVars, jobs, inputs, job, stop_event, next_id, precedes,
                   wpc, job_id, exc, polls, started, localVars, histVars>>

\* submit, lines 86-87: self.queue.put(job_id); return job.
SubmitPut(j) ==
    /\ j \in DOMAIN requests
    /\ requests[j] = "inserted"
    /\ queue' = Append(queue, j)
    /\ unfinished_tasks' = unfinished_tasks + 1
    /\ returned' = returned \cup {j}
    /\ requests' = [requests EXCEPT ![j] = "returned"]
    /\ UNCHANGED <<created_at, restVars, jobs, inputs, job, stop_event, next_id, precedes,
                   wpc, job_id, exc, polls, started, localVars, histVars>>

\* create_video_job, lines 213-218: the response body, built from the object
\* submit returned, which is the object in the table, read without the lock.
response(j) == [job_id |-> j, status |-> jobs[j].status]

\* create_video_job, lines 213-218: the response is sent; the request is over
\* and its thread is free again.
Respond(j) ==
    /\ j \in DOMAIN requests
    /\ requests[j] = "returned"
    /\ response(j).job_id = j
    /\ requests' = [k \in DOMAIN requests \ {j} |-> requests[k]]
    /\ UNCHANGED <<created_at, restVars, jobs, inputs, job, queue, unfinished_tasks, stop_event, next_id,
                   returned, precedes, wpc, job_id, exc, polls, started,
                   localVars, histVars>>

\* stop, line 100: self.stop_event.set().
Stop ==
    /\ UNCHANGED <<inputs, job, created_at, restVars>>
    /\ ~stop_event
    /\ stop_event' = TRUE
    /\ UNCHANGED <<jobs, queue, unfinished_tasks, clientVars, wpc, job_id, exc,
                   polls, started, localVars, histVars>>

\* ------------------------------------------------------------ _worker_loop

\* The history variables describe the job in the worker; they end with it.
ForgetHistory ==
    /\ calls' = <<>>
    /\ remote_failed' = FALSE
    /\ audio_env' = NoAudioEnv
    /\ muxed' = <<None, None>>

\* _run_job has returned or raised: its locals are gone.
DropLocals ==
    /\ job' = NoJob
    /\ video_path' = None
    /\ video_provider' = None
    /\ audio_path' = None
    /\ audio_provider' = None

\* Line 121, finally: self.queue.task_done().
task_done == unfinished_tasks' = unfinished_tasks - 1

\* Line 111: while not self.stop_event.is_set().
CheckStop ==
    /\ UNCHANGED <<inputs, job, created_at, restVars>>
    /\ wpc = "loop"
    /\ wpc' = IF stop_event THEN "exited" ELSE "get"
    /\ UNCHANGED <<jobs, queue, unfinished_tasks, stop_event, clientVars, job_id,
                   exc, polls, started, localVars, histVars>>

\* A get that reads the oldest id and leaves it in the queue.
DequeueKeepsItem ==
    /\ UNCHANGED <<inputs, job, created_at, restVars>>
    /\ wpc = "get"
    /\ queue # <<>>
    /\ Len(started) < MaxJobs + 1
    /\ job_id' = Head(queue)
    /\ started' = Append(started, Head(queue))
    /\ wpc' = "run"
    /\ UNCHANGED <<jobs, queue, unfinished_tasks, stop_event, clientVars, exc, polls,
                   localVars, histVars>>

\* Line 113: job_id = self.queue.get(timeout=0.5) hands out the oldest id.
Dequeue ==
    /\ UNCHANGED <<inputs, job, created_at, restVars>>
    /\ wpc = "get"
    /\ queue # <<>>
    /\ job_id' = Head(queue)
    /\ queue' = Tail(queue)
    /\ started' = Append(started, Head(queue))
    /\ wpc' = "run"
    /\ UNCHANGED <<jobs, unfinished_tasks, stop_event, clientVars, exc, polls,
                   localVars, histVars>>

\* An Empty that ends the loop (break) instead of going round it (continue).
GetTimeoutBreaks ==
    /\ UNCHANGED <<inputs, job, created_at, restVars>>
    /\ wpc = "get"
    /\ queue = <<>>
    /\ wpc' = "exited"
    /\ UNCHANGED <<jobs, queue, unfinished_tasks, stop_event, clientVars, job_id,
                   exc, polls, started, localVars, histVars>>

\* Lines 114-115: the queue stayed empty for the timeout; Empty, continue.
GetTimeout ==
    /\ UNCHANGED <<inputs, job, created_at, restVars>>
    /\ wpc = "get"
    /\ queue = <<>>
    /\ wpc' = "loop"
    /\ UNCHANGED <<jobs, queue, unfinished_tasks, stop_event, clientVars, job_id,
                   exc, polls, started, localVars, histVars>>

\* An except branch that forgets error=str(e).
failed_kwargs_no_error(e) ==
    [status |-> "failed", progress |-> 100, stage |-> "failed"]

\* An except branch that records the error and leaves the status as it is.
failed_kwargs_still_running(e) == [progress |-> 100, stage |-> "failed", error |-> e]

\* The keywords of the except branch, line 119.
failed_kwargs(e) ==
    [status |-> "failed", progress |-> 100, stage |-> "failed", error |-> e]

\* The exception leaves _worker_loop: the thread is gone.
after_except_thread_ends == "exited"

\* Where the worker is once the except branch and finally have run: back at the
\* head of the while loop.
after_except == "loop"

\* Lines 118-121: except Exception as e: _update(failed ...); finally task_done.
HandleException ==
    /\ UNCHANGED <<inputs, created_at, restVars>>
    /\ wpc = "except"
    /\ update(job_id, failed_kwargs(exc))
    /\ task_done
    /\ exc' = None
    /\ wpc' = after_except
    /\ DropLocals
    /\ ForgetHistory
    /\ UNCHANGED <<queue, stop_event, clientVars, job_id, polls, started>>

\* ----------------------------------------------------------------- _run_job

\* Lines 124-134: look the job up (a missing job returns at once), make the job
\* directory (os.makedirs may raise), mark the job running, set the locals.
StartJob ==
    /\ wpc = "run"
    /\ audio_path' = None
    /\ audio_provider' = None
    /\ video_path' = None
    /\ IF job_id \notin DOMAIN jobs
       THEN /\ task_done
            /\ wpc' = "loop"
            /\ video_provider' = None
            /\ UNCHANGED <<jobs, inputs, job, exc>>
       ELSE /\ job' = inputs[job_id]
            /\ inputs' = [j \in DOMAIN inputs \ {job_id} |-> inputs[j]]
            /\ \E made \in BOOLEAN :
              IF made
              THEN /\ update(job_id, [status |-> "running", progress |-> 5,
                                      stage |-> "starting"])
                   /\ video_provider' = "local"
                   /\ wpc' = IF inputs[job_id].use_replicate
                             THEN "replicate_begin" ELSE "local_begin"
                   /\ UNCHANGED <<exc, unfinished_tasks>>
              ELSE /\ exc' = ErrMkdir
                   /\ wpc' = "except"
                   /\ video_provider' = None
                   /\ UNCHANGED <<jobs, unfinished_tasks>>
    /\ UNCHANGED <<queue, stop_event, clientVars, job_id, polls, started, histVars,
                   created_at, restVars>>

\* Line 136: the remote video checkpoint.
ReplicateBegin ==
    /\ UNCHANGED <<inputs, job, created_at, restVars>>
    /\ wpc = "replicate_begin"
    /\ update(job_id, [progress |-> 20, stage |-> "generating_video_replicate"])
    /\ wpc' = "replicate_submit"
    /\ UNCHANGED <<queue, unfinished_tasks, stop_event, clientVars, job_id, exc,
                   polls, started, localVars, histVars>>

\* No test of video_path: the audio stage follows the remote attempt at once.
next_after_remote_no_fallback(path) == "audio_begin"

\* Line 143: if video_path is None, the local path runs next; else the audio.
next_after_remote(path) == IF path = None THEN "local_begin" ELSE "audio_begin"

\* Lines 140-141: except Exception: video_path = None.
RemoteRaised ==
    /\ remote_failed' = TRUE
    /\ video_path' = None
    /\ wpc' = next_after_remote(None)
    /\ polls' = 0
    /\ UNCHANGED <<jobs, video_provider>>

\* _generate_video_replicate, lines 166-192: the configuration check, the
\* prediction request, the polling URL.
ReplicateSubmit ==
    /\ UNCHANGED <<inputs, job, created_at, restVars>>
    /\ wpc = "replicate_submit"
    /\ calls' = Append(calls, "replicate")
    /\ \E outcome \in {"not_configured", "rejected", "no_poll_url", "accepted"} :
          IF outcome = "accepted"
          THEN /\ wpc' = "replicate_poll"
               /\ polls' = 0
               /\ UNCHANGED <<jobs, video_path, video_provider, remote_failed>>
          ELSE RemoteRaised
    /\ UNCHANGED <<queue, unfinished_tasks, stop_event, clientVars, job_id, exc,
                   started, audio_path, audio_provider, audio_env, muxed>>

\* Line 195: while time.time() - start < 900, one poll every 3 seconds.
poll_loop_continues(p) == p < MaxPolls

\* Lines 196-211: one poll.  succeeded with an output that downloads returns the
\* path (and line 139 sets the provider); failed, canceled, a request error, a
\* missing output or a failed download raise; anything else sleeps.
ReplicatePoll ==
    /\ UNCHANGED <<inputs, job, created_at, restVars>>
    /\ wpc = "replicate_poll"
    /\ poll_loop_continues(polls)
    /\ \E outcome \in {"running", "succeeded", "no_output", "download_error",
                       "failed", "canceled", "poll_error"} :
          CASE outcome = "running" ->
                 /\ polls' = polls + 1
                 /\ UNCHANGED <<jobs, wpc, video_path, video_provider, remote_failed>>
            [] outcome = "succeeded" ->
                 /\ video_path' = "video_replicate.mp4"
                 /\ video_provider' = "replicate"
                 /\ wpc' = next_after_remote("video_replicate.mp4")
                 /\ polls' = 0
                 /\ UNCHANGED <<jobs, remote_failed>>
            [] OTHER -> RemoteRaised
    /\ UNCHANGED <<queue, unfinished_tasks, stop_event, clientVars, job_id, exc,
                   started, audio_path, audio_provider, calls, audio_env, muxed>>

\* Line 212: the loop ran out of time: raise RuntimeError("Replicate job timed out").
ReplicateTimeout ==
    /\ UNCHANGED <<inputs, job, created_at, restVars>>
    /\ wpc = "replicate_poll"
    /\ ~poll_loop_continues(polls)
    /\ RemoteRaised
    /\ UNCHANGED <<queue, unfinished_tasks, stop_event, clientVars, job_id, exc,
                   started, audio_path, audio_provider, calls, audio_env,
                   muxed>>

\* A local checkpoint below the remote one (10 < 20).
local_kwargs_low == [progress |-> 10, stage |-> "generating_video_local"]

\* Line 144: the local video checkpoint.
local_kwargs == [progress |-> 30, stage |-> "generating_video_local"]

LocalBegin ==
    /\ UNCHANGED <<inputs, job, created_at, restVars>>
    /\ wpc = "local_begin"
    /\ update(job_id, local_kwargs)
    /\ wpc' = "local_gen"
    /\ UNCHANGED <<queue, unfinished_tasks, stop_event, clientVars, job_id, exc,
                   polls, started, localVars, histVars>>

\* Lines 145-146, _generate_video_local: the image request, the image data, the
\* ffmpeg run.  Nothing catches what it raises.
LocalGenerate ==
    /\ UNCHANGED <<inputs, job, created_at, restVars>>
    /\ wpc = "local_gen"
    /\ calls' = Append(calls, "local")
    /\ \E outcome \in {"ok"} \cup LocalErrors :
          IF outcome = "ok"
          THEN /\ video_path' = "video_local.mp4"
               /\ video_provider' = "local"
               /\ wpc' = "audio_begin"
               /\ UNCHANGED exc
          ELSE /\ exc' = outcome
               /\ wpc' = "except"
               /\ UNCHANGED <<video_path, video_provider>>
    /\ UNCHANGED <<jobs, queue, unfinished_tasks, stop_event, clientVars, job_id,
                   polls, started, audio_path, audio_provider, remote_failed,
                   audio_env, muxed>>

\* Line 148: the audio checkpoint.
AudioBegin ==
    /\ UNCHANGED <<inputs, job, created_at, restVars>>
    /\ wpc = "audio_begin"
    /\ update(job_id, [progress |-> 55, stage |-> "generating_audio"])
    /\ wpc' = "audio_gen"
    /\ UNCHANGED <<queue, unfinished_tasks, stop_event, clientVars, job_id, exc,
                   polls, started, localVars, histVars>>

\* Line 149: audio_path, audio_provider = self._generate_audio(...).
GenerateAudio ==
    /\ UNCHANGED <<inputs, job, created_at, restVars>>
    /\ wpc = "audio_gen"
    /\ \E env \in AudioEnvs(job.use_elevenlabs) :
          LET r == generate_audio(job.use_elevenlabs, env) IN
          /\ audio_env' = env
          /\ calls' = calls \o audio_calls(job.use_elevenlabs, env)
          /\ IF r.raised = None
             THEN /\ audio_path' = r.path
                  /\ audio_provider' = r.provider
                  /\ wpc' = "mux_begin"
                  /\ UNCHANGED exc
             ELSE /\ exc' = r.raised
                  /\ wpc' = "except"
                  /\ UNCHANGED <<audio_path, audio_provider>>
    /\ UNCHANGED <<jobs, queue, unfinished_tasks, stop_event, clientVars, job_id,
                   polls, started, video_path, video_provider, remote_failed, muxed>>

\* Line 151: the mux checkpoint.
MuxBegin ==
    /\ UNCHANGED <<inputs, job, created_at, restVars>>
    /\ wpc = "mux_begin"
    /\ update(job_id, [progress |-> 80, stage |-> "muxing"])
    /\ wpc' = "mux"
    /\ UNCHANGED <<queue, unfinished_tasks, stop_event, clientVars, job_id, exc,
                   polls, started, localVars, histVars>>

\* Lines 152-153: _mux_video_and_audio(video_path, audio_path, output_path).
Mux ==
    /\ UNCHANGED <<inputs, job, created_at, restVars>>
    /\ wpc = "mux"
    /\ calls' = Append(calls, "mux")
    /\ \E ok \in BOOLEAN :
          IF ok
          THEN /\ muxed' = <<video_path, audio_path>>
               /\ wpc' = "complete"
               /\ UNCHANGED exc
          ELSE /\ exc' = ErrMux
               /\ wpc' = "except"
               /\ UNCHANGED muxed
    /\ UNCHANGED <<jobs, queue, unfinished_tasks, stop_event, clientVars, job_id,
                   polls, started, localVars, remote_failed, audio_env>>

\* A last update that always reports the local video provider.
completed_kwargs_always_local(vp, ap) ==
    [status |-> "completed", progress |-> 100, stage |-> "completed",
     output_path |-> "final.mp4", video_provider |-> "local", audio_provider |-> ap]

\* The keywords of the last update, lines 155-163.
completed_kwargs(vp, ap) ==
    [status |-> "completed", progress |-> 100, stage |-> "completed",
     output_path |-> "final.mp4", video_provider |-> vp, audio_provider |-> ap]

\* Lines 155-163 and 121: the job is completed; _run_job returns; task_done.
Complete ==
    /\ UNCHANGED <<inputs, created_at, restVars>>
    /\ wpc = "complete"
    /\ update(job_id, completed_kwargs(video_provider, audio_provider))
    /\ task_done
    /\ wpc' = "loop"
    /\ DropLocals
    /\ ForgetHistory
    /\ UNCHANGED <<queue, stop_event, clientVars, job_id, exc, polls, started>>

\* ------------------------------------------------------------ specification

Client ==
    \/ SubmitInsert
    \/ \E j \in JobIds : SubmitPut(j)
    \/ \E j \in JobIds : Respond(j)

Worker ==
    \/ CheckStop
    \/ Dequeue
    \/ GetTimeout
    \/ StartJob
    \/ ReplicateBegin
    \/ ReplicateSubmit
    \/ ReplicatePoll
    \/ ReplicateTimeout
    \/ LocalBegin
    \/ LocalGenerate
    \/ AudioBegin
    \/ GenerateAudio
    \/ MuxBegin
    \/ Mux
    \/ Complete
    \/ HandleException

Next ==
    \/ Client
    \/ Worker
    \/ Stop

Spec == Init /\ [][Next]_vars

\* The system when stop() is never called, the worker thread is scheduled
\* fairly and every external call returns or raises (each Worker step is one
\* such call, and the poll loop is bounded by its total wait).
NextNoStop ==
    \/ Client
    \/ Worker

LiveSpec == Init /\ [][NextNoStop]_vars /\ WF_vars(Worker)

\* ------------------------------------------------- get_job / download_job

\* A summary that carries the download link whatever the job's status is.
serialize_job_always_url(j, first, last) ==
    [job_id         |-> j,
     status         |-> first.status,
     progress       |-> first.progress,
     stage          |-> first.stage,
     error          |-> first.error,
     video_provider |-> first.video_provider,
     audio_provider |-> first.audio_provider,
     download_url   |-> "/jobs/{job_id}/download"]

\* serialize_job(job) for job j.  The function reads the attributes of the
\* shared object without the lock: `first` is the object as lines 144-156
\* read it, `last` the object as line 157 reads it (the same, or as the
\* worker's next update left it).  The read-only handlers change no state; a
\* response is a function of the state (or the two states) it was read in.
serialize_job(j, first, last) ==
    [job_id         |-> j,
     status         |-> first.status,
     progress       |-> first.progress,
     stage          |-> first.stage,
     error          |-> first.error,
     video_provider |-> first.video_provider,
     audio_provider |-> first.audio_provider,
     download_url   |-> IF last.status = "completed" /\ last.output_path # None
                        THEN "/jobs/{job_id}/download"
                        ELSE None]

\* download_job(job_id); exists is os.path.exists(job.output_path).
download_job(j, exists) ==
    IF j \notin DOMAIN jobs
    THEN [status_code |-> 404, detail |-> "Job not found"]
    ELSE IF jobs[j].status # "completed" \/ jobs[j].output_path = None
    THEN [status_code |-> 409, detail |-> "Job is not completed yet"]
    ELSE IF ~exists
    THEN [status_code |-> 404, detail |-> "Output file missing"]
    ELSE [status_code |-> 200, detail |-> jobs[j].output_path]

\* --------------------------------------------------------- listing the jobs

\* Time passes.
Tick ==
    /\ clock < MaxClock
    /\ clock' = clock + 1
    /\ UNCHANGED <<managerVars, sideVars, listed, estimateVars, editorVars>>

\* list_jobs -> list_recent(limit): the caller gets the list.
ListRecent(limit) ==
    /\ listed' = [limit |-> limit, jobs |-> list_recent(limit)]
    /\ UNCHANGED <<managerVars, sideVars, clock, estimateVars, editorVars>>

\* Submits and list requests as time passes.  The worker is left out: it
\* writes neither created_at nor the keys of the table, which are all that
\* list_recent orders by.
ListNext ==
    \/ Client
    \/ Tick
    \/ \E limit \in 1..MaxLimit : ListRecent(limit)

ListSpec == Init /\ [][ListNext]_vars

\* ------------------------------------------------- _estimate_duration_seconds

\* The estimate without the lower clamp.
estimate_no_floor(n) ==
    LET words == IF n > 1 THEN n ELSE 1
        estimated == (words * 45) \div 100 + 2
    IN  IF estimated < 20 THEN estimated ELSE 20

\* _estimate_duration_seconds(text), n = len(text.split()):
\* words = max(1, n); estimated = int(words * 0.45) + 2;
\* max(6, min(20, estimated)).  int(words * 0.45) is the whole part of
\* 45 * words / 100 (the double product never falls on the other side of a
\* whole number for any word count).
estimate_duration_seconds(n) ==
    LET words == IF n > 1 THEN n ELSE 1
        estimated == (words * 45) \div 100 + 2
        capped == IF estimated < 20 THEN estimated ELSE 20
    IN  IF capped > 6 THEN capped ELSE 6

\* _run_job, line 127: the duration of a narration of n words is estimated.
Estimate(n) ==
    /\ narration_words' = n
    /\ duration_seconds' = estimate_duration_seconds(n)
    /\ UNCHANGED <<managerVars, sideVars, clock, listed, editorVars>>

EstimateNext == \E n \in 0..MaxWords : Estimate(n)

EstimateSpec == Init /\ [][EstimateNext]_vars

\* ------------------------------------------------------ export_editor_project

\* The clips of a request, all tracks together.
clip_count(p) ==
    Len(collect_clips(p.video_tracks)) + Len(collect_clips(p.audio_tracks))
    + Len(collect_clips(p.text_tracks))

\* The client writes the request: it declares a duration.
SetDuration(d) ==
    /\ epc = "editing"
    /\ payload.duration = <<>>
    /\ payload' = [payload EXCEPT !.duration = <<d>>]
    /\ UNCHANGED <<managerVars, sideVars, clock, listed, estimateVars, epc, compiled, exports,
                 previous>>

\* The client writes the request: one more clip at the end of a video track.
AddVideoClip(t, clip) ==
    /\ epc = "editing"
    /\ clip_count(payload) < MaxClips
    /\ payload' = [payload EXCEPT !.video_tracks[t] = Append(@, clip)]
    /\ UNCHANGED <<managerVars, sideVars, clock, listed, estimateVars, epc, compiled, exports,
                 previous>>

\* The client writes the request: one more clip at the end of an audio track.
AddAudioClip(t, clip) ==
    /\ epc = "editing"
    /\ clip_count(payload) < MaxClips
    /\ payload' = [payload EXCEPT !.audio_tracks[t] = Append(@, clip)]
    /\ UNCHANGED <<managerVars, sideVars, clock, listed, estimateVars, epc, compiled, exports,
                 previous>>

\* The client writes the request: one more clip at the end of a text track.
AddTextClip(t, clip) ==
    /\ epc = "editing"
    /\ clip_count(payload) < MaxClips
    /\ payload' = [payload EXCEPT !.text_tracks[t] = Append(@, clip)]
    /\ UNCHANGED <<managerVars, sideVars, clock, listed, estimateVars, epc, compiled, exports,
                 previous>>

\* add_export_record: one more record in the index (export_id is fresh).
add_export_record(result) ==
    Append(exports, [export_id |-> Len(exports) + 1, duration |-> result.duration])

\* export_editor_project: export_project, then add_export_record when it
\* returned; a RuntimeError becomes a 400, any other exception leaves the
\* handler.
ExportEditorProject(render_ok) ==
    /\ epc = "editing"
    /\ LET result == export_project(payload, render_ok)
       IN  /\ compiled' = result
           /\ exports' = IF result.error = NoError
                         THEN add_export_record(result) ELSE exports
           /\ epc' = IF result.error = NoError THEN "200"
                     ELSE IF result.error.kind = "TypeError" THEN "500"
                     ELSE "400"
    /\ UNCHANGED <<managerVars, sideVars, clock, listed, estimateVars, payload, previous>>

\* export_editor_project for the same request posted once more: the handler
\* again, the result of the first call remembered in previous.
ExportSameProjectAgain(render_ok) ==
    /\ epc # "editing"
    /\ previous = NotCompiled
    /\ previous' = compiled
    /\ LET result == export_project(payload, render_ok)
       IN  /\ compiled' = result
           /\ exports' = IF result.error = NoError
                         THEN add_export_record(result) ELSE exports
           /\ epc' = IF result.error = NoError THEN "200"
                     ELSE IF result.error.kind = "TypeError" THEN "500"
                     ELSE "400"
    /\ UNCHANGED <<managerVars, sideVars, clock, listed, estimateVars, payload>>

EditorNext ==
    \/ \E d \in DeclaredDurations : SetDuration(d)
    \/ \E t \in 1..MaxTracks, clip \in VideoClips : AddVideoClip(t, clip)
    \/ \E t \in 1..MaxTracks, clip \in AudioClips : AddAudioClip(t, clip)
    \/ \E t \in 1..MaxTracks, clip \in TextClips : AddTextClip(t, clip)
    \/ \E render_ok \in BOOLEAN : ExportEditorProject(render_ok)

EditorSpec == Init /\ [][EditorNext]_vars

RecompileNext ==
    \/ EditorNext
    \/ \E render_ok \in BOOLEAN : ExportSameProjectAgain(render_ok)

RecompileSpec == Init /\ [][RecompileNext]_vars

\* ----------------------------------------------------------------- self.lock

\* A closer view of lines 84-108: every `with self.lock:` is an entry that
\* waits for the lock and takes it, and the block, at whose end the lock is
\* given back.  Request threads call submit, get and list_recent; the worker
\* calls get (line 124) and _update between its queue operations and its
\* external calls (provider requests, downloads, ffmpeg and espeak-ng runs).

\* A lock that is still held when the with block has been left.
holder_after_with_kept(u) == u

\* The holder of the lock when thread u has left its with block.
holder_after_with(u) == None

\* A request thread is handed a request that calls m.
CallMethod(t, m) ==
    /\ lpc[t] = "idle"
    /\ lpc' = [lpc EXCEPT ![t] = m]
    /\ UNCHANGED <<lock, notLockVars>>

\* `with self.lock:` at position `at`: wait until the lock is free, take it.
with_enter(u, at, into) ==
    /\ lpc[u] = at
    /\ lock = None
    /\ lock' = u
    /\ lpc' = [lpc EXCEPT ![u] = into]
    /\ UNCHANGED notLockVars

\* The block of the with statement and its end.
with_exit(u, at, to) ==
    /\ lpc[u] = at
    /\ lock' = holder_after_with(u)
    /\ lpc' = [lpc EXCEPT ![u] = to]
    /\ UNCHANGED notLockVars

\* A step outside the with blocks.
unlocked_step(u, at, to) ==
    /\ lpc[u] = at
    /\ lpc' = [lpc EXCEPT ![u] = to]
    /\ UNCHANGED <<lock, notLockVars>>

\* submit: line 84; line 85; lines 86-87 (queue.put, return).
SubmitEnter(t) == with_enter(t, "submit_with", "submit_insert")
SubmitInsertLocked(t) == with_exit(t, "submit_insert", "submit_put")
SubmitQueuePut(t) == unlocked_step(t, "submit_put", "idle")

\* get: line 90; line 91.  The worker's call is line 124 of _run_job, which
\* goes on to its first _update or, with no job, returns.
GetEnter(u) == with_enter(u, "get_with", "get_read")
GetRead(u) ==
    \E to \in IF u = "worker" THEN {"update_with", "task_done"} ELSE {"idle"} :
       with_exit(u, "get_read", to)

\* list_recent: line 94; line 95; lines 96-97 (sort, slice, return).
ListEnter(t) == with_enter(t, "list_with", "list_copy")
ListCopy(t) == with_exit(t, "list_copy", "list_sort")
ListSort(t) == unlocked_step(t, "list_sort", "idle")

\* _worker_loop, line 113: queue.get hands out a job id.
QueueGet == unlocked_step("worker", "queue_get", "get_with")

\* _update: line 104; lines 105-108.  After it comes an external call, or,
\* after the last update of the job, task_done.
UpdateEnter == with_enter("worker", "update_with", "update_set")
UpdateSet ==
    \E to \in {"external_call", "task_done"} :
       with_exit("worker", "update_set", to)

\* _run_job, lines 137-153: a provider request, a download, an ffmpeg or
\* espeak-ng run returns or raises; an _update follows (the next checkpoint,
\* completed, or failed in line 119).
ExternalCall == unlocked_step("worker", "external_call", "update_with")

\* _worker_loop, line 121: queue.task_done().
TaskDone == unlocked_step("worker", "task_done", "queue_get")

LockNext ==
    \/ \E t \in Threads, m \in {"submit_with", "get_with", "list_with"} :
          CallMethod(t, m)
    \/ \E t \in Threads : SubmitEnter(t) \/ SubmitInsertLocked(t) \/ SubmitQueuePut(t)
    \/ \E u \in LockUsers : GetEnter(u) \/ GetRead(u)
    \/ \E t \in Threads : ListEnter(t) \/ ListCopy(t) \/ ListSort(t)
    \/ QueueGet
    \/ UpdateEnter
    \/ UpdateSet
    \/ ExternalCall
    \/ TaskDone

LockSpec == Init /\ [][LockNext]_vars

\* ----------------------------------------------------- wait_for_sd_on_demand

\* sd_host health, lines 91-93: the status the provider reports.
health == IF model_loaded THEN "ok" ELSE "loading"

\* sd_host load_model, line 85: the startup has loaded the model.
LoadModel ==
    /\ ~model_loaded
    /\ model_loaded' = TRUE
    /\ UNCHANGED <<managerVars, notSdVars, sd_wait, admitted, ready_seen>>

\* The provider's process is started again on demand: line 16 of the module.
HostRestart ==
    /\ model_loaded
    /\ model_loaded' = FALSE
    /\ UNCHANGED <<managerVars, notSdVars, sd_wait, admitted, ready_seen>>

\* The create_video_job calls in flight: in the wait, between the wait and
\* the insert, and from the insert to the response.
calls_in_flight ==
    LET RECURSIVE waiting(_)
        waiting(n) == IF n > MaxHealthPolls THEN 0 ELSE sd_wait[n] + waiting(n + 1)
    IN  waiting(0) + (admitted - (next_id - 1)) + Cardinality(DOMAIN requests)

\* create_video_job, line 206: a request thread enters wait_for_sd_on_demand.
StartWait ==
    /\ calls_in_flight < Cardinality(Threads)
    /\ admitted < MaxJobs
    /\ sd_wait' = [sd_wait EXCEPT ![0] = @ + 1]
    /\ UNCHANGED <<managerVars, notSdVars, model_loaded, admitted, ready_seen>>

\* Line 127: while time.time() - start < timeout, one poll every 2 seconds.
wait_loop_continues(n) == n < MaxHealthPolls

\* Lines 128-136: one poll of a call that has made n polls.  A 200 with
\* status ok returns; another answer or a RequestException sleeps.
HealthPoll(n) ==
    /\ sd_wait[n] > 0
    /\ wait_loop_continues(n)
    /\ \E answer \in {health, "unreachable"} :
          IF answer = "ok"
          THEN /\ sd_wait' = [sd_wait EXCEPT ![n] = @ - 1]
               /\ admitted' = admitted + 1
               /\ ready_seen' = ready_seen + 1
          ELSE /\ sd_wait' = [sd_wait EXCEPT ![n] = @ - 1, ![n + 1] = @ + 1]
               /\ UNCHANGED <<admitted, ready_seen>>
    /\ UNCHANGED <<managerVars, notSdVars, model_loaded>>

\* A wait that returns to its caller when the time is up.
returns_at_timeout_always == TRUE

\* Lines 137-140: the time is up: HTTPException 503 leaves create_video_job;
\* the wait does not return.
returns_at_timeout == FALSE

WaitTimeout(n) ==
    /\ sd_wait[n] > 0
    /\ ~wait_loop_continues(n)
    /\ sd_wait' = [sd_wait EXCEPT ![n] = @ - 1]
    /\ admitted' = IF returns_at_timeout THEN admitted + 1 ELSE admitted
    /\ UNCHANGED <<managerVars, notSdVars, model_loaded, ready_seen>>

\* create_video_job, lines 206-207: submit is called when the wait returned.
AdmittedSubmitInsert ==
    /\ next_id <= admitted
    /\ SubmitInsert

ReadyNext ==
    \/ LoadModel
    \/ HostRestart
    \/ StartWait
    \/ \E n \in 0..MaxHealthPolls : HealthPoll(n)
    \/ \E n \in 0..MaxHealthPolls : WaitTimeout(n)
    \/ AdmittedSubmitInsert
    \/ \E j \in JobIds : SubmitPut(j)
    \/ \E j \in JobIds : Respond(j)
    \/ Worker

ReadySpec == Init /\ [][ReadyNext]_vars

\* ------------------------------------------------------- sd_host: generate

\* load_model, lines 73-81: pipe is assigned before model_loaded is set.
LoadPipe ==
    /\ pipe = None
    /\ pipe' = "pipe"
    /\ UNCHANGED <<notHostVars, model_loaded, pipe_lock, gpc, answered>>

\* load_model, line 85, which comes after the assignment of pipe.
FinishLoad ==
    /\ pipe # None
    /\ LoadModel

\* A generate that does not look at the state of the model.
generate_refused_never == FALSE

\* generate, line 108: if not model_loaded or pipe is None.
generate_refused == ~model_loaded \/ pipe = None

\* health, lines 89-103: the handler answers with the status.
Health(g) ==
    /\ gpc[g] = "idle"
    /\ answered' = [answered EXCEPT ![g] = health]
    /\ UNCHANGED <<notHostVars, model_loaded, pipe, pipe_lock, gpc>>

\* generate, lines 108-128: 503 while the model is loading, 400 for a blank
\* prompt, else on to the lock.
GenerateCheck(g) ==
    /\ gpc[g] = "idle"
    /\ \E blank \in BOOLEAN :
          IF generate_refused
          THEN /\ answered' = [answered EXCEPT ![g] = "503"]
               /\ UNCHANGED gpc
          ELSE IF blank
          THEN /\ answered' = [answered EXCEPT ![g] = "400"]
               /\ UNCHANGED gpc
          ELSE /\ gpc' = [gpc EXCEPT ![g] = "pipe_lock"]
               /\ UNCHANGED answered
    /\ UNCHANGED <<notHostVars, model_loaded, pipe, pipe_lock>>

\* generate, line 130: with pipe_lock waits for the lock and takes it.
GenerateAcquire(g) ==
    /\ gpc[g] = "pipe_lock"
    /\ pipe_lock = None
    /\ pipe_lock' = g
    /\ gpc' = [gpc EXCEPT ![g] = "inference"]
    /\ UNCHANGED <<notHostVars, model_loaded, pipe, answered>>

\* generate, lines 131-142: the inference runs and the lock is given back; the
\* image is returned, or the exception of the pipe leaves the handler.
GenerateInfer(g) ==
    /\ gpc[g] = "inference"
    /\ pipe_lock' = None
    /\ gpc' = [gpc EXCEPT ![g] = "idle"]
    /\ \E code \in {"200", "500"} : answered' = [answered EXCEPT ![g] = code]
    /\ UNCHANGED <<notHostVars, model_loaded, pipe>>

SdHostNext ==
    \/ LoadPipe
    \/ FinishLoad
    \/ \E g \in HostThreads : Health(g)
    \/ \E g \in HostThreads : GenerateCheck(g)
    \/ \E g \in HostThreads : GenerateAcquire(g)
    \/ \E g \in HostThreads : GenerateInfer(g)

SdHostSpec == Init /\ [][SdHostNext]_vars

\* ------------------------------------- _generate_video_replicate: the poll loop

\* A closer view of lines 194-212 with the time: every poll takes no time or
\* the whole timeout of the request, every sleep takes the interval.

\* Lines 182-194: the prediction was accepted; start = time.time().
PollStart ==
    /\ ppc = "post"
    /\ ppc' = "while"
    /\ poll_elapsed' = 0
    /\ UNCHANGED <<notPollVars, poll_count, poll_outcome>>

\* A loop that goes on for twice the time.
poll_loop_open_twice(elapsed) == elapsed < 2 * PollTimeoutSeconds

\* Line 195: while time.time() - start < 900.
poll_loop_open(elapsed) == elapsed < PollTimeoutSeconds

\* Line 195, and line 212 when the time is up: raise "Replicate job timed out".
PollWhile ==
    /\ ppc = "while"
    /\ IF poll_loop_open(poll_elapsed)
       THEN /\ ppc' = "get"
            /\ UNCHANGED poll_outcome
       ELSE /\ ppc' = "raised"
            /\ poll_outcome' = "timed_out"
    /\ UNCHANGED <<notPollVars, poll_elapsed, poll_count>>

\* Lines 196-210: one poll.  succeeded with an output that downloads returns
\* the path; a request error, failed, canceled, a missing output or a failed
\* download raise; any other status goes on to the sleep.
PollGet ==
    /\ ppc = "get"
    /\ \E took \in {0, PollRequestTimeoutSeconds} :
          poll_elapsed' = poll_elapsed + took
    /\ \E outcome \in {"running", "succeeded", "no_output", "download_error",
                       "failed", "canceled", "poll_error"} :
          /\ poll_outcome' = outcome
          /\ ppc' = CASE outcome = "running"   -> "sleep"
                      [] outcome = "succeeded" -> "returned"
                      [] OTHER                 -> "raised"
    /\ UNCHANGED <<notPollVars, poll_count>>

\* Line 211: time.sleep(3).
PollSleep ==
    /\ ppc = "sleep"
    /\ poll_elapsed' = poll_elapsed + PollIntervalSeconds
    /\ poll_count' = poll_count + 1
    /\ ppc' = "while"
    /\ UNCHANGED <<notPollVars, poll_outcome>>

\* _run_job, lines 137-146: the path returned is kept, an exception makes it
\* None, and line 143 chooses what runs next.
PollDone ==
    /\ ppc \in {"returned", "raised"}
    /\ ppc' = next_after_remote(IF ppc = "returned"
                                THEN "video_replicate.mp4" ELSE None)
    /\ UNCHANGED <<notPollVars, poll_elapsed, poll_count, poll_outcome>>

PollNext ==
    \/ PollStart
    \/ PollWhile
    \/ PollGet
    \/ PollSleep
    \/ PollDone

PollSpec == Init /\ [][PollNext]_vars

\* Every request of the loop returns or raises within its timeout, and every
\* sleep ends.
PollLiveSpec == PollSpec /\ WF_vars(PollNext)

\* ------------------------------------------------- _update and serialize_job

\* A closer view of one job: _update sets the attributes of the VideoJob one
\* after the other while it holds self.lock (lines 104-108); get and
\* list_recent hold the lock while they fetch the object and give it to the
\* caller, and serialize_job reads its attributes one after the other with no
\* lock (main.py, lines 144-158).

\* submit, lines 72-85: the object is made and put in the table.
SubmitShared ==
    /\ shared_job = <<>>
    /\ lock = None
    /\ shared_job' = <<NewJob>>
    /\ last_call' = "queued"
    /\ UNCHANGED <<notSnapVars, lock, pending, spc, data>>

\* The _update calls of _worker_loop and _run_job for one job: which call can
\* follow which (lines 119, 131, 136, 144, 148, 151 and 155).
next_calls(call) ==
    CASE call = "queued"    -> {"starting", "failed"}
      [] call = "starting"  -> {"replicate", "local"}
      [] call = "replicate" -> {"local", "audio"}
      [] call = "local"     -> {"audio", "failed"}
      [] call = "audio"     -> {"muxing", "failed"}
      [] call = "muxing"    -> {"completed", "failed"}
      [] OTHER              -> {}

\* The keywords of each of these calls.
kwargs_of(call) ==
    CASE call = "starting"  -> [status |-> "running", progress |-> 5, stage |-> "starting"]
      [] call = "replicate" -> [progress |-> 20, stage |-> "generating_video_replicate"]
      [] call = "local"     -> local_kwargs
      [] call = "audio"     -> [progress |-> 55, stage |-> "generating_audio"]
      [] call = "muxing"    -> [progress |-> 80, stage |-> "muxing"]
      [] call = "completed" -> completed_kwargs("local", "silent")
      [] call = "failed"    -> failed_kwargs(ErrMux)

\* kwargs.items(): the keywords in the order the call wrote them, which in
\* every call of the manager is the order of this list.
keyword_order ==
    <<"status", "progress", "stage", "error", "output_path", "video_provider",
      "audio_provider">>

items(kwargs) ==
    LET keys == SelectSeq(keyword_order, LAMBDA key : key \in DOMAIN kwargs)
    IN  [k \in DOMAIN keys |-> <<keys[k], kwargs[keys[k]]>>]

\* _update, lines 104-105: the worker takes the lock for the next call.
UpdateBegin(call) ==
    /\ shared_job # <<>>
    /\ call \in next_calls(last_call)
    /\ lock = None
    /\ lock' = "worker"
    /\ pending' = items(kwargs_of(call))
    /\ last_call' = call
    /\ UNCHANGED <<notSnapVars, shared_job, spc, data>>

\* _update, lines 106-107: setattr(job, key, value) for the next keyword.
SetAttr ==
    /\ pending # <<>>
    /\ shared_job' = [shared_job EXCEPT ![1][pending[1][1]] = pending[1][2]]
    /\ pending' = Tail(pending)
    /\ UNCHANGED <<notSnapVars, lock, last_call, spc, data>>

\* _update, line 108 and the end of the with block.
UpdateEnd ==
    /\ lock = "worker"
    /\ pending = <<>>
    /\ lock' = None
    /\ UNCHANGED <<notSnapVars, shared_job, pending, last_call, spc, data>>

\* The attributes serialize_job reads in lines 147-154, in that order (job_id,
\* prompt and created_at never change; updated_at is left out).
serialize_reads ==
    <<"status", "progress", "stage", "error", "video_provider", "audio_provider">>

\* get_job, lines 230-232, and list_jobs, line 224: get (lines 90-91) or
\* list_recent (lines 94-97) gives the object of the table, fetched under the
\* lock; get_job answers 404 when there is none, list_jobs has nothing to
\* serialize.
GetJob(via) ==
    /\ spc = 0
    /\ lock = None
    /\ IF shared_job = <<>>
       THEN /\ spc' = Len(serialize_reads) + 3
            /\ data' = [NoData EXCEPT !.via = via, !.status = "no job"]
       ELSE /\ spc' = 1
            /\ data' = [NoData EXCEPT !.via = via]
    /\ UNCHANGED <<notSnapVars, lock, shared_job, pending, last_call>>

\* serialize_job, lines 147-154: one attribute is read into the dict.
SerializeRead ==
    /\ spc \in DOMAIN serialize_reads
    /\ data' = [data EXCEPT ![serialize_reads[spc]] = shared_job[1][serialize_reads[spc]]]
    /\ spc' = spc + 1
    /\ UNCHANGED <<notSnapVars, lock, shared_job, pending, last_call>>

\* serialize_job, line 157: job.status == "completed", read once more.
SerializeTestStatus ==
    /\ spc = Len(serialize_reads) + 1
    /\ spc' = IF shared_job[1].status = "completed" THEN spc + 1 ELSE spc + 2
    /\ UNCHANGED <<notSnapVars, lock, shared_job, pending, last_call, data>>

\* serialize_job, lines 157-159: and job.output_path; the download_url is set
\* when there is a path.
SerializeTestPath ==
    /\ spc = Len(serialize_reads) + 2
    /\ data' = [data EXCEPT !.download_url =
                   IF shared_job[1].output_path # None THEN "/jobs/id/download" ELSE None]
    /\ spc' = spc + 1
    /\ UNCHANGED <<notSnapVars, lock, shared_job, pending, last_call>>

\* The response has been sent; the thread takes the next request.
SerializeDone ==
    /\ spc = Len(serialize_reads) + 3
    /\ spc' = 0
    /\ data' = NoData
    /\ UNCHANGED <<notSnapVars, lock, shared_job, pending, last_call>>

SnapshotNext ==
    \/ SubmitShared
    \/ \E call \in {"starting", "replicate", "local", "audio", "muxing", "completed",
                     "failed"} : UpdateBegin(call)
    \/ SetAttr
    \/ UpdateEnd
    \/ \E via \in {"get", "list_recent"} : GetJob(via)
    \/ SerializeRead
    \/ SerializeTestStatus
    \/ SerializeTestPath
    \/ SerializeDone

SnapshotSpec == Init /\ [][SnapshotNext]_vars

\* ------------------------------------------------------------------ helpers

Terminal == {"completed", "failed"}

Range(s) == {s[i] : i \in DOMAIN s}

NoRepeat(s) == \A i, k \in DOMAIN s : i # k => s[i] # s[k]

Pos(s, x) == CHOOSE i \in DOMAIN s : s[i] = x

\* The stages of _run_job after the video stage.
AfterVideo == {"audio_begin", "audio_gen", "mux_begin", "mux", "complete"}

\* The provider a file of the job directory came from (the names of lines 208,
\* 216, 270, 277 and 316).
ProviderOfFile(path) ==
    CASE path = "video_replicate.mp4"  -> "replicate"
      [] path = "video_local.mp4"      -> "local"
      [] path = "audio_elevenlabs.mp3" -> "elevenlabs"
      [] path = "audio_espeak.wav"     -> "espeak-ng"
      [] path = "audio_silent.m4a"     -> "silent"
      [] OTHER                         -> None

\* ------------------------------------------------------------------- claims

C1_Step ==
    \A j \in DOMAIN jobs :
       /\ jobs'[j].status # jobs[j].status =>
             <<jobs[j].status, jobs'[j].status>> \in
                {<<"queued", "running">>, <<"running", "completed">>,
                 <<"running", "failed">>, <<"queued", "failed">>}
       /\ jobs[j].status \in Terminal => jobs'[j] = jobs[j]

C1_Once ==
    /\ NoRepeat(queue)
    /\ NoRepeat(started)
    /\ Range(queue) \cap Range(started) = {}
    /\ \A j \in DOMAIN jobs :
          jobs[j].status # "queued" => j \in Range(started)

C1_StepAsStated ==
    \A j \in DOMAIN jobs :
       /\ jobs'[j].status # jobs[j].status =>
             <<jobs[j].status, jobs'[j].status>> \in
                {<<"queued", "running">>, <<"running", "completed">>,
                 <<"running", "failed">>}
       /\ jobs[j].status \in Terminal => jobs'[j] = jobs[j]

\* C1 as stated: a job's status changes only along queued -> running,
\* running -> completed, running -> failed; a job that is completed or failed
\* never changes again and no id is enqueued or run a second time.
C1_OnlyThroughRunning == [][C1_StepAsStated]_vars /\ []C1_Once

\* C1 (amended): a job's status changes only along queued -> running,
\* running -> completed, running -> failed, or queued -> failed (the job
\* directory could not be made, before the job was marked running); a job that
\* is completed or failed never changes again, and no id is in the queue twice,
\* dequeued twice, or in the queue again once dequeued.
C1_StatusMachine == [][C1_Step]_vars /\ []C1_Once

\* C1 witness: one job has gone queued -> running -> completed and the next one
\* queued -> failed, its directory not made.
C1_Witness ==
    \E a, b \in DOMAIN jobs :
       /\ a # b
       /\ jobs[a].status = "completed"
       /\ jobs[b].status = "failed"
       /\ jobs[b].error = ErrMkdir
       /\ started = <<a, b>>

\* C2 as stated: when the caller of submit reads the job for its response, the
\* job has status queued and progress 0.
C2_ResponseQueued ==
    [][\A j \in DOMAIN requests :
          (requests[j] = "returned" /\ j \notin DOMAIN requests') =>
             /\ response(j).status = "queued"
             /\ jobs[j].progress = 0]_vars

\* C3: every job whose submit has returned eventually is completed or failed
\* (worker scheduled fairly, external calls return, stop never called).
C3_EventuallyTerminal ==
    \A j \in JobIds :
       (j \in returned) ~> (j \in DOMAIN jobs /\ jobs[j].status \in Terminal)

\* C3 witness: both submitted jobs have been processed to a terminal status.
C3_Witness ==
    /\ returned = JobIds
    /\ \A j \in JobIds : jobs[j].status \in Terminal
    /\ \E j \in JobIds : jobs[j].status = "completed"

C4_Step == \A j \in DOMAIN jobs : jobs'[j].progress >= jobs[j].progress

C4_Range == \A j \in DOMAIN jobs : jobs[j].progress \in 0..100

\* C4: the progress of every job never decreases from one update to the next,
\* on every path (fallbacks and failure included), and stays within 0..100.
C4_ProgressMonotone == [][C4_Step]_vars /\ []C4_Range

\* C4 witness: a job on the fallback path, past the remote checkpoint (20) and
\* at the local one (30).
C4_Witness ==
    /\ remote_failed
    /\ wpc = "local_gen"
    /\ jobs[job_id].progress = 30

C5_Fallback ==
    /\ remote_failed =>
          /\ job.use_replicate
          /\ wpc \in {"local_begin", "local_gen", "except"} \cup AfterVideo
          /\ wpc \in {"except"} \cup AfterVideo => "local" \in Range(calls)
    /\ (remote_failed /\ wpc \in AfterVideo) =>
          /\ video_path = "video_local.mp4"
          /\ video_provider = "local"
    /\ (remote_failed /\ wpc = "except") =>
          exc \in LocalErrors \cup AudioErrors \cup {ErrMux}

C5_Step ==
    /\ (remote_failed /\ wpc = "complete" /\ wpc' # wpc) =>
          /\ jobs'[job_id].status = "completed"
          /\ jobs'[job_id].video_provider = "local"
    /\ (remote_failed /\ jobs'[job_id].status = "failed") =>
          jobs'[job_id].error \in LocalErrors \cup AudioErrors \cup {ErrMux}

\* C5: when the remote video generation of a job raises (for any reason), the
\* local video path is run next; if local generation, audio and mux then
\* succeed the job is completed with video_provider local, and if the job
\* fails, the error is that of the local, audio or mux stage, never the
\* remote provider's.
C5_RemoteFallback == []C5_Fallback /\ [][C5_Step]_vars

\* C5 witness: the remote attempt failed, the local path, the audio and the mux
\* have succeeded, and the job is about to be marked completed.
C5_Witness ==
    /\ remote_failed
    /\ wpc = "complete"
    /\ calls[1] = "replicate"
    /\ calls[2] = "local"

\* C6 as stated: when the espeak-ng run fails the silent track is generated
\* instead, and the audio stage raises only when silent synthesis failed.
C6_SilentFallback ==
    /\ audio_env.espeak = "fail" => "silent" \in Range(calls)
    /\ (wpc = "except" /\ exc \in AudioErrors) => audio_env.silent = "fail"

C7_Rows ==
    \A j \in DOMAIN jobs :
       /\ jobs[j].status = "failed" => jobs[j].error \in Errors
       /\ jobs[j].status # "completed" =>
             /\ jobs[j].output_path = None
             /\ jobs[j].video_provider = None
             /\ jobs[j].audio_provider = None

C7_NoFurtherStage ==
    /\ (wpc = "except" /\ exc \in LocalErrors) => calls[Len(calls)] = "local"
    /\ (wpc = "except" /\ exc = ErrMux) => calls[Len(calls)] = "mux"

C7_Step ==
    (wpc = "except" /\ exc \in LocalErrors \cup {ErrMux} /\ wpc' # wpc) =>
       /\ jobs'[job_id].status = "failed"
       /\ jobs'[job_id].error = exc
       /\ wpc' = "loop"

\* C7: when local video generation or the mux raises, no further stage is
\* called for the job, the job is marked failed with that error recorded, and
\* a job that is not completed has output_path and both providers unset.
C7_FatalStages == []C7_Rows /\ []C7_NoFurtherStage /\ [][C7_Step]_vars

\* C7 witness: a job failed by the mux and a job failed by local generation.
C7_Witness ==
    \E a, b \in DOMAIN jobs :
       /\ jobs[a].status = "failed" /\ jobs[a].error = ErrMux
       /\ jobs[b].status = "failed" /\ jobs[b].error = ErrLocalVideo

C8_Rows ==
    \A j \in DOMAIN jobs :
       jobs[j].status = "failed" =>
          /\ jobs[j].progress = 100
          /\ jobs[j].stage = "failed"
          /\ jobs[j].error \in Errors

C8_Step ==
    /\ (wpc = "except" /\ wpc' # wpc) =>
          /\ jobs'[job_id].status = "failed"
          /\ jobs'[job_id].error = exc
          /\ wpc' = "loop"
    /\ wpc' = "exited" => (wpc \in {"loop", "exited"} /\ stop_event)

\* C8: an exception raised by a stage is caught in the worker loop: the job is
\* marked failed with progress 100, stage failed and the error recorded, the
\* worker is back at the head of its loop, and it leaves the loop only there
\* and only when the stop event is set.
C8_WorkerSurvives == []C8_Rows /\ [][C8_Step]_vars

\* C8 witness: a job failed, and the worker is running the job queued after it.
C8_Witness ==
    \E a, b \in DOMAIN jobs :
       /\ started = <<a, b>>
       /\ jobs[a].status = "failed"
       /\ jobs[b].status = "running"

C9_Rows ==
    \A j \in DOMAIN jobs :
       /\ jobs[j].status = "completed" =>
             /\ jobs[j].progress = 100
             /\ jobs[j].stage = "completed"
             /\ jobs[j].output_path # None
             /\ jobs[j].video_provider \in {"replicate", "local"}
             /\ jobs[j].audio_provider \in {"elevenlabs", "espeak-ng", "silent"}
       /\ jobs[j].status # "completed" => jobs[j].output_path = None

C9_Step ==
    \A j \in DOMAIN jobs :
       (jobs[j].status # "completed" /\ jobs'[j].status = "completed") =>
          /\ jobs'[j].video_provider = ProviderOfFile(muxed[1])
          /\ jobs'[j].audio_provider = ProviderOfFile(muxed[2])

C10_SubmissionOrder ==
    \A p \in precedes :
       /\ p[2] \in Range(started) =>
             /\ p[1] \in Range(started)
             /\ Pos(started, p[1]) < Pos(started, p[2])
       /\ (p[2] \in DOMAIN jobs /\ jobs[p[2]].status # "queued") =>
             jobs[p[1]].status # "queued"

\* C10 witness: two jobs submitted one after the other have both been started.
C10_Witness ==
    \E p \in precedes : {p[1], p[2]} \subseteq Range(started)

\* The k most recently submitted of n jobs, the most recent first.
MostRecent(k, n) == [i \in 1..(IF k < n THEN k ELSE n) |-> n + 1 - i]

\* C11 as stated: list_recent(k) returns the min(k, n) most recently submitted
\* of the n jobs of the table, the most recent first, also when several jobs
\* were created within the same second.
C11_MostRecentFirst ==
    [][listed' # listed =>
          listed'.jobs = MostRecent(listed'.limit, Cardinality(DOMAIN jobs))]_vars

\* C12 as stated: once stop() has set the stop event the worker starts no job
\* (it dequeues none); the job in flight, if any, is the only one still run.
C12_NoStartAfterStop == [][stop_event => started' = started]_vars

\* floor(w * 0.45) + 2, given as the whole number q with
\* q - 2 <= 0.45 * w < q - 1.
FloorEstimate(w) ==
    CHOOSE q \in 0..(w + 2) : 100 * (q - 2) <= 45 * w /\ 45 * w < 100 * (q - 1)

C13_Step ==
    (narration_words' # narration_words \/ duration_seconds' # duration_seconds) =>
       LET w == IF narration_words' > 1 THEN narration_words' ELSE 1
           q == FloorEstimate(w)
       IN  /\ duration_seconds' \in 6..20
           /\ duration_seconds' = IF q < 6 THEN 6 ELSE IF q > 20 THEN 20 ELSE q
           /\ (narration_words' >= narration_words) =>
                  duration_seconds' >= duration_seconds
           /\ (narration_words' = 10) => duration_seconds' = 6

\* C13: the duration estimated for a narration is floor(words * 0.45) + 2
\* (words at least 1) clamped to 6..20: always a whole number in 6..20, never
\* smaller for more words, and 6 for 10 words.
C13_EstimateClamped == [][C13_Step]_vars

\* C13 witness: a 10-word narration has been estimated at 6 seconds.
C13_Witness == narration_words = 10 /\ duration_seconds = 6

C14_Rows ==
    \A j \in DOMAIN jobs :
       LET summary == serialize_job(j, jobs[j], jobs[j])
       IN  /\ (summary.download_url # None) <=>
                 (jobs[j].status = "completed" /\ jobs[j].output_path # None)
           /\ summary.download_url # None => summary.status = "completed"
           /\ jobs[j].status = "completed" => summary.download_url # None
           /\ jobs[j].status # "completed" =>
                 \A exists \in BOOLEAN : download_job(j, exists).status_code = 409

C14_Step ==
    \A j \in DOMAIN jobs :
       serialize_job(j, jobs[j], jobs'[j]).download_url # None =>
          jobs'[j].status = "completed"

\* C14: the summary of a job has a download_url exactly when the job's status
\* is completed and its output_path is set, which is so only once the job is
\* completed (also when the worker updates the job between the summary's
\* reads), and download_job answers 409 for every job that is not completed.
C14_DownloadOnlyCompleted == []C14_Rows /\ [][C14_Step]_vars

\* C14 witness: a completed job whose summary has the link, and a failed job
\* whose download is refused.
C14_Witness ==
    \E a, b \in DOMAIN jobs :
       /\ jobs[a].status = "completed"
       /\ serialize_job(a, jobs[a], jobs[a]).download_url # None
       /\ download_job(a, TRUE).status_code = 200
       /\ jobs[b].status = "failed"
       /\ download_job(b, TRUE).status_code = 409

\* ---------------------------------------------------------- claims, editor

\* The request has been handled: export_editor_project has answered.
Exported == epc # "editing"

VideoItems == collect_clips(payload.video_tracks)
AudioItems == collect_clips(payload.audio_tracks)
TextItems == collect_clips(payload.text_tracks)
AllItems == VideoItems \o AudioItems \o TextItems

\* The clip names an asset.
HasAssetId(clip) == clip.asset_id # None /\ clip.asset_id # ""

\* The parts of the compiled graph with the operation op.
PartsOf(op) == {k \in DOMAIN compiled.filter_parts : compiled.filter_parts[k].op = op}

\* export_project went through to the renderer: a graph was compiled.
GraphCompiled == Exported /\ compiled.reached \in {"line 362", "line 363"}

\* C15: a request with no video clip and no text clip is refused with the
\* empty-project error, no graph is built, the renderer is not run and no
\* export record is added.
C15_EmptyProjectRefused ==
    (Exported /\ VideoItems = <<>> /\ TextItems = <<>>) =>
       /\ compiled.error = EmptyProjectError
       /\ epc = "400"
       /\ compiled.filter_parts = <<>>
       /\ ~compiled.rendered
       /\ exports = <<>>

\* C15 witness: a request with an audio clip only has been refused so.
C15_Witness ==
    /\ Exported
    /\ VideoItems = <<>> /\ TextItems = <<>> /\ AudioItems # <<>>
    /\ compiled.error = EmptyProjectError

\* A video clip whose asset is in the store and has a video stream, or a text
\* clip with a text that is set and not blank.
HasContent ==
    \/ \E k \in DOMAIN VideoItems :
          /\ HasAssetId(VideoItems[k].clip)
          /\ resolves(VideoItems[k].clip.asset_id)
          /\ assets[VideoItems[k].clip.asset_id].has_video
    \/ \E k \in DOMAIN TextItems :
          /\ TextItems[k].clip.text # <<>>
          /\ strip(TextItems[k].clip.text[1]) # ""

\* C16 as stated: a request none of whose video or text clips has content that
\* resolves is refused, never rendered.
C16_NoContentRefused ==
    (Exported /\ ~HasContent) =>
       /\ compiled.error # NoError
       /\ ~compiled.rendered
       /\ exports = <<>>

\* The asset ids the video and audio clips name that the store does not have,
\* in the order of the clips (video tracks first).
MissingRefs ==
    SelectSeq([k \in DOMAIN (VideoItems \o AudioItems) |->
                  (VideoItems \o AudioItems)[k].clip.asset_id],
              LAMBDA id : id # None /\ id # "" /\ ~resolves(id))

C17_Aborted ==
    /\ epc = "400"
    /\ compiled.filter_parts = <<>>
    /\ ~compiled.rendered
    /\ exports = <<>>

\* C17 as stated: when a video or audio clip names an asset the store does not
\* have, the compile aborts with the asset-not-found error naming such an id,
\* with no graph, no renderer run and no export record.
C17_MissingAssetNamed ==
    (Exported /\ MissingRefs # <<>>) =>
       /\ C17_Aborted
       /\ \E k \in DOMAIN MissingRefs :
             compiled.error = AssetNotFoundError(MissingRefs[k])

\* C17 (amended): when a video or audio clip names an asset the store does not
\* have, the compile aborts with no graph, no renderer run and no export
\* record; the error is the asset-not-found error naming the first such id
\* (video clips before audio clips), unless the request has no video and no
\* text clip, and then it is the empty-project error.
C17_MissingAssetAborts ==
    (Exported /\ MissingRefs # <<>>) =>
       /\ C17_Aborted
       /\ compiled.error =
             IF VideoItems = <<>> /\ TextItems = <<>>
             THEN EmptyProjectError
             ELSE AssetNotFoundError(MissingRefs[1])

\* C17 witness: a text clip and an audio clip naming a missing asset: refused
\* with that asset named.
C17_Witness ==
    /\ Exported
    /\ TextItems # <<>>
    /\ MissingRefs = <<"missing-2">>
    /\ compiled.error = AssetNotFoundError("missing-2")

\* C18: the duration a compile resolves is at least the declared duration (if
\* one is declared), at least start + duration of every clip of every track,
\* and at least 1.0.
C18_DurationCoversAll ==
    (Exported /\ compiled.reached # "line 195") =>
       /\ payload.duration # <<>> => compiled.duration >= payload.duration[1]
       /\ \A k \in DOMAIN AllItems :
             compiled.duration >= AllItems[k].clip.start + AllItems[k].clip.duration
       /\ compiled.duration >= 1000

\* C18 witness: a declared duration shorter than a clip's end, and the clip's
\* end resolved.
C18_Witness ==
    /\ epc = "200"
    /\ payload.duration = <<500>>
    /\ compiled.duration = 9000

\* The video clips that get an overlay: asset named, in the store, with video.
Overlaid ==
    {k \in DOMAIN VideoItems :
        /\ HasAssetId(VideoItems[k].clip)
        /\ resolves(VideoItems[k].clip.asset_id)
        /\ assets[VideoItems[k].clip.asset_id].has_video}

\* The parts that make a picture.
VisualOps == {"background", "prepare", "overlay", "drawtext"}

\* C19: a compiled graph has as many overlay nodes as the request has video
\* clips whose asset is in the store and has video; its first visual node is
\* the background vbase, which is the base input of the first overlay.
C19_OverlayPerVideoClip ==
    GraphCompiled =>
       LET parts == compiled.filter_parts
           overlays == PartsOf("overlay")
           visual == {k \in DOMAIN parts : parts[k].op \in VisualOps}
       IN  /\ Cardinality(overlays) = Cardinality(Overlaid)
           /\ \E k \in visual :
                 /\ parts[k].op = "background" /\ parts[k].out = vbase
                 /\ \A m \in visual : k <= m
           /\ \A k \in overlays :
                 (\A m \in overlays : k <= m) => parts[k].ins[1] = vbase

\* C19 witness: one clip overlaid and one clip of an audio-only asset skipped.
C19_Witness ==
    /\ epc = "200"
    /\ Len(VideoItems) = 2
    /\ Cardinality(Overlaid) = 1
    /\ Cardinality(PartsOf("overlay")) = 1

\* C20: every video clip that is processed has a duration of at least 0.1 and
\* fades of at least 0 and at most half that duration, whatever the request
\* gave.
C20_TransitionsClamped ==
    Exported =>
       \A k \in PartsOf("prepare") :
          LET part == compiled.filter_parts[k]
          IN  /\ part.to >= 100
              /\ part.fade_in >= 0 /\ 2 * part.fade_in <= part.to
              /\ part.fade_out >= 0 /\ 2 * part.fade_out <= part.to

\* C20 witness: a clip with a negative duration, a negative fade-in and a
\* fade-out over half the clamped duration has been processed.
C20_Witness ==
    /\ Exported
    /\ \E k \in DOMAIN VideoItems :
          /\ VideoItems[k].clip.duration < 0
          /\ VideoItems[k].clip.transition_in < 0
          /\ VideoItems[k].clip.transition_out > 50
    /\ \E k \in PartsOf("prepare") :
          /\ compiled.filter_parts[k].to = 100
          /\ compiled.filter_parts[k].fade_in = 0
          /\ compiled.filter_parts[k].fade_out = 50

\* The node that writes the audio output aout.
MixNodes == {k \in DOMAIN compiled.filter_parts : compiled.filter_parts[k].out = aout}

\* The video clips whose asset has both a video and an audio stream.
VideoWithAudio ==
    {k \in Overlaid : assets[VideoItems[k].clip.asset_id].has_audio}

\* The audio-track clips whose asset has an audio stream.
AudioWithAudio ==
    {k \in DOMAIN AudioItems :
        /\ HasAssetId(AudioItems[k].clip)
        /\ resolves(AudioItems[k].clip.asset_id)
        /\ assets[AudioItems[k].clip.asset_id].has_audio}

\* The request of the scenario: one video clip of an asset with video and
\* audio, lasting 5 s from 0, nothing else, no longer duration declared.
OneClipProject ==
    /\ Len(VideoItems) = 1 /\ AudioItems = <<>> /\ TextItems = <<>>
    /\ VideoItems[1].clip = Clip("vid", 0, 5000, 0, 0, <<>>, <<>>)
    /\ payload.duration # <<>> => payload.duration[1] <= 5000

\* C21: a compiled graph has exactly one node writing the audio output, and it
\* reads 1 + (video clips whose asset has video and audio) + (audio-track
\* clips whose asset has audio) labels, the first being the silent base; for
\* the one-clip project of 5 s that is 2 labels and the duration resolves to 5.
C21_MixInputCount ==
    GraphCompiled =>
       /\ Cardinality(MixNodes) = 1
       /\ \A k \in MixNodes :
             LET ins == compiled.filter_parts[k].ins
             IN  /\ Len(ins) = 1 + Cardinality(VideoWithAudio)
                                 + Cardinality(AudioWithAudio)
                 /\ ins[1] = abase
                 /\ OneClipProject =>
                       /\ compiled.filter_parts[k].op = "amix"
                       /\ ins = <<abase, <<"av", 0>>>>
                       /\ compiled.duration = 5000

\* C21 witness: the one-clip project has been exported with a mix of 2 labels.
C21_Witness ==
    /\ epc = "200"
    /\ OneClipProject
    /\ \E k \in MixNodes : Len(compiled.filter_parts[k].ins) = 2
    /\ compiled.duration = 5000

\* The graph of a compile: the nodes in order with their operations, labels
\* and parameters, the final video label, the inputs and the duration.
GraphOf(c) == <<c.filter_parts, c.video_out, c.input_specs, c.duration>>

Running == {j \in DOMAIN jobs : jobs[j].status = "running"}

\* The stage of _run_job an external call belongs to.
StageOfCall(call) ==
    CASE call \in {"replicate", "local"}                -> 1
      [] call \in {"elevenlabs", "espeak-ng", "silent"} -> 2
      [] call = "mux"                                   -> 3

\* At most one job is running, and it is the one the worker holds; the
\* external calls made for it so far are in stage order, the audio stage has
\* the video file and the mux has both files.
C23_OneRunning ==
    /\ Cardinality(Running) <= 1
    /\ \A j \in Running : j = job_id /\ wpc \notin {"loop", "get", "exited", "run"}
    /\ \A i, k \in DOMAIN calls : i < k => StageOfCall(calls[i]) <= StageOfCall(calls[k])
    /\ Cardinality({k \in DOMAIN calls : calls[k] = "mux"}) <= 1
    /\ wpc \in {"audio_begin", "audio_gen"} => video_path # None /\ audio_path = None
    /\ wpc \in {"mux_begin", "mux"} => video_path # None /\ audio_path # None

\* A dequeue finds every job dequeued before it completed or failed.
C23_Step ==
    started' # started =>
       \A k \in DOMAIN started : jobs[started[k]].status \in Terminal

\* C23: at most one job is running at any time; the worker dequeues the next
\* job id only after every job dequeued before has reached completed or
\* failed; within a job the stages run in the order video, audio, mux, one
\* after the other.
C23_JobsNeverInterleaved == []C23_OneRunning /\ [][C23_Step]_vars

\* C23 witness: the second job is in its mux stage after the first one ended.
C23_Witness ==
    /\ Len(started) = 2
    /\ wpc = "mux"
    /\ Running = {started[2]}
    /\ jobs[started[1]].status \in Terminal

\* The positions inside a with self.lock block.
InsideWith == {"submit_insert", "get_read", "list_copy", "update_set"}

\* The positions at a blocking call or a queue operation: queue.put,
\* queue.get, task_done, a provider request or subprocess run.
BlockingOrQueue == {"submit_put", "queue_get", "task_done", "external_call"}

\* C24: the lock is held only by a thread inside one of the with blocks of
\* submit, get, list_recent and _update; a thread at a provider request, a
\* subprocess run or a queue operation does not hold it.
C24_LockOnlyForTableAccess ==
    \A u \in LockUsers :
       /\ lock = u => lpc[u] \in InsideWith
       /\ lpc[u] \in InsideWith => lock = u
       /\ lpc[u] \in BlockingOrQueue => lock # u

\* C24 witness: the worker is in an external call while a request thread
\* holds the lock for its table access.
C24_Witness ==
    /\ lpc["worker"] = "external_call"
    /\ \E t \in Threads : lock = t /\ lpc[t] = "get_read"

\* The worker has sent the generation request of the job it holds.
GenerationRequested == \E k \in DOMAIN calls : calls[k] = "local"

\* Every job in the table, so every job the worker sends a generation request
\* for, was made by a create_video_job call whose wait got status ok; no call
\* polls more often than its timeout allows.
C25_Gated ==
    /\ next_id - 1 <= ready_seen
    /\ GenerationRequested => job_id <= ready_seen
    /\ admitted = ready_seen

\* A call counts as having seen the provider ready only in a step in which
\* the provider reports ready.
C25_Step == ready_seen' > ready_seen => model_loaded

\* C25: before the worker sends the generation request of a job to the local
\* image provider, the create_video_job call that made the job has polled the
\* provider's health, in a loop bounded by the startup timeout, until it
\* reported ready; a call whose loop runs out of time makes no job.
C25_ReadyBeforeGeneration == []C25_Gated /\ [][C25_Step]_vars

\* C25 witness: the generation request of a job has been sent, after one
\* create_video_job call ran out of time and the provider, seen ready for this
\* job, has been started again and is loading.
C25_Witness ==
    /\ GenerationRequested
    /\ job_id <= ready_seen
    /\ ~model_loaded
    /\ sd_wait[MaxHealthPolls] > 0

\* The provider threads whose inference is executing.
Inferring == {g \in HostThreads : gpc[g] = "inference"}

\* At most one inference executes, under the lock, and none before the model
\* has been loaded.
C26_OneInference ==
    /\ Cardinality(Inferring) <= 1
    /\ \A g \in Inferring : pipe_lock = g
    /\ \A g \in HostThreads :
          gpc[g] \in {"pipe_lock", "inference"} => model_loaded /\ pipe # None
    /\ ~model_loaded => health = "loading"

\* A request a provider thread takes while the model is not loaded is answered
\* with 503 (generate) or with the status loading (health), and the thread
\* goes no further.
C26_Step ==
    \A g \in HostThreads :
       (~model_loaded /\ gpc[g] = "idle"
           /\ <<gpc'[g], answered'[g]>> # <<gpc[g], answered[g]>>) =>
          /\ gpc'[g] = "idle"
          /\ answered'[g] \in {"503", "loading"}

\* C26: in the local image provider at most one inference executes at any
\* time under concurrent generate requests, and none before the model has
\* finished loading: a generate request that arrives while the model is not
\* loaded is refused with 503, and health reports loading, not ok.
C26_SerializedInference == []C26_OneInference /\ [][C26_Step]_vars

\* C26 witness: one request is in its inference and another waits for the
\* lock, after a request was refused with 503.
C26_Witness ==
    /\ gpc["g1"] = "inference"
    /\ gpc["g2"] = "pipe_lock"
    /\ answered["g2"] = "503"

\* The outcomes of a poll that raise.
PollErrors == {"no_output", "download_error", "failed", "canceled", "poll_error"}

\* The loop polls at most 900 / 3 times and its total wait stays under 900 s
\* plus one poll and one sleep; it returns only for a succeeded prediction,
\* raises for an error or when the wait has reached 900 s, and after a raise
\* the local video path runs next.
C27_Bounded ==
    /\ poll_count * PollIntervalSeconds <= poll_elapsed
    /\ poll_count <= PollTimeoutSeconds \div PollIntervalSeconds
    /\ poll_elapsed < PollTimeoutSeconds + PollRequestTimeoutSeconds
                        + PollIntervalSeconds
    /\ ppc \in {"returned", "audio_begin"} <=> poll_outcome = "succeeded"
    /\ ppc \in {"raised", "local_begin"} <=> poll_outcome \in PollErrors \cup {"timed_out"}
    /\ poll_outcome = "timed_out" => poll_elapsed >= PollTimeoutSeconds

\* C27: the remote video polling loop always terminates: with success when
\* the prediction reports succeeded with an output, with an error when it
\* reports failed or canceled or a request fails, and with a timeout error
\* once the total wait has reached 900 seconds at a 3-second poll interval;
\* in every case but success the local video path runs next.
C27_PollLoopTerminates ==
    /\ []C27_Bounded
    /\ (ppc = "while") ~> (ppc \in {"local_begin", "audio_begin"})

\* C27 witness: the loop has timed out after 300 polls of a running
\* prediction and the local video path is next.
C27_Witness ==
    /\ ppc = "local_begin"
    /\ poll_outcome = "timed_out"
    /\ poll_count = 300
    /\ poll_elapsed = 900

\* Item a comes before item b by (track_index, start, clip_index).
KeyLess(a, b) ==
    \/ a.track_index < b.track_index
    \/ a.track_index = b.track_index /\ a.clip.start < b.clip.start
    \/ /\ a.track_index = b.track_index /\ a.clip.start = b.clip.start
       /\ a.clip_index < b.clip_index

\* The place of video clip k in the order of that key (from 0).
VideoRank(k) ==
    Cardinality({m \in DOMAIN VideoItems : KeyLess(VideoItems[m], VideoItems[k])})

\* The parts that take the composite so far and give the next one.
FoldParts == PartsOf("overlay") \cup PartsOf("drawtext")

\* The composite before part k of the fold: the output of the fold part
\* before it, the background for the first.
CompositeBefore(k) ==
    LET before == {m \in FoldParts : m < k}
    IN  IF before = {} THEN vbase
        ELSE compiled.filter_parts[CHOOSE m \in before : \A n \in before : n <= m].out

\* C28: the overlays of a compiled graph are one chain in the order of the
\* key (track_index, start, clip_index): the overlay of a processed clip is
\* numbered by the clip's place in that order, the overlays follow each other
\* by that number, each takes as its base the output of the fold node before
\* it (the background for the first), the text nodes follow the same way, and
\* the final video label is the output of the last fold node.
C28_LinearChain ==
    GraphCompiled =>
       LET parts == compiled.filter_parts
           overlays == PartsOf("overlay")
       IN  /\ \A k \in FoldParts : parts[k].ins[1] = CompositeBefore(k)
           /\ compiled.video_out = CompositeBefore(Len(parts) + 1)
           /\ \A a \in overlays, b \in PartsOf("drawtext") : a < b
           /\ \A a, b \in overlays : a < b => parts[a].out[2] < parts[b].out[2]
           /\ \A k \in Overlaid :
                 \E m \in overlays :
                    /\ parts[m].out = <<"vtmp", VideoRank(k)>>
                    /\ parts[m].from = Max2(0, VideoItems[k].clip.start)
                    /\ parts[m].to = parts[m].from
                                       + Max2(100, VideoItems[k].clip.duration)

\* C28 witness: two clips overlaid, the clip of the first track starting after
\* the clip of the second track and yet below it.
C28_Witness ==
    /\ epc = "200"
    /\ Len(payload.video_tracks[1]) = 1 /\ Len(payload.video_tracks[2]) = 1
    /\ payload.video_tracks[1][1].start > payload.video_tracks[2][1].start
    /\ Cardinality(PartsOf("overlay")) = 2
    /\ \E k \in PartsOf("overlay") :
          /\ compiled.filter_parts[k].ins[1] = <<"vtmp", 0>>
          /\ compiled.filter_parts[k].from = Max2(0, payload.video_tracks[2][1].start)

\* The asset ids the video clips and then the audio clips name, clip by clip.
AssetRefs ==
    SelectSeq([k \in DOMAIN (VideoItems \o AudioItems) |->
                  (VideoItems \o AudioItems)[k].clip.asset_id],
              LAMBDA id : id # None /\ id # "")

\* The first place of an asset id among the references.
FirstRef(id) ==
    CHOOSE k \in DOMAIN AssetRefs :
       AssetRefs[k] = id /\ \A m \in DOMAIN AssetRefs : AssetRefs[m] = id => k <= m

\* The place of audio clip k in the order of the key (from 0).
AudioRank(k) ==
    Cardinality({m \in DOMAIN AudioItems : KeyLess(AudioItems[m], AudioItems[k])})

\* The part is read from the renderer input of the asset: an input after the
\* two synthetic ones, at the asset's place in the input list.
ReadsAsset(part, stream, asset_id) ==
    \E i \in DOMAIN compiled.input_specs :
       /\ compiled.input_specs[i] = asset_id
       /\ part.ins = <<<<stream, i + 1>>>>
       /\ i + 1 >= 2

\* C29: the renderer inputs of a compile are the asset ids the video clips
\* and then the audio clips name, each once, in the order of their first
\* reference; their input indexes are distinct and come after the two
\* synthetic inputs; every clip the video or the audio loop processes reads
\* the input of its own asset.
C29_InputsDeduplicated ==
    (Exported /\ compiled.reached \in {"line 319", "line 362", "line 363"}) =>
       LET specs == compiled.input_specs
           parts == compiled.filter_parts
       IN  /\ NoRepeat(specs)
           /\ Range(specs) = Range(AssetRefs)
           /\ \A i, k \in DOMAIN specs :
                 i < k => FirstRef(specs[i]) < FirstRef(specs[k])
           /\ \A k \in Overlaid :
                 \E m \in PartsOf("prepare") :
                    /\ parts[m].out = <<"vclip", VideoRank(k)>>
                    /\ ReadsAsset(parts[m], "v", VideoItems[k].clip.asset_id)
           /\ \A k \in VideoWithAudio :
                 \E m \in PartsOf("audio") :
                    /\ parts[m].out = <<"av", VideoRank(k)>>
                    /\ ReadsAsset(parts[m], "a", VideoItems[k].clip.asset_id)
           /\ \A k \in AudioWithAudio :
                 \E m \in PartsOf("audio") :
                    /\ parts[m].out = <<"aa", AudioRank(k)>>
                    /\ ReadsAsset(parts[m], "a", AudioItems[k].clip.asset_id)

\* C29 witness: a video clip and an audio clip of the same asset: one input,
\* read by both at index 2.
C29_Witness ==
    /\ epc = "200"
    /\ Len(AssetRefs) = 2
    /\ compiled.input_specs = <<"vid">>
    /\ \E m \in PartsOf("audio") :
          /\ compiled.filter_parts[m].out = <<"aa", 0>>
          /\ compiled.filter_parts[m].ins = <<<<"a", 2>>>>

\* The labels of the audio sources of the graph besides the silent base, in
\* the order of the parts.
SourceLabels ==
    LET audio == SelectSeq(compiled.filter_parts, LAMBDA part : part.op = "audio")
    IN  [k \in DOMAIN audio |-> audio[k].out]

\* The graph passes the silent base through: no mix node.
BasePassedThrough ==
    /\ PartsOf("amix") = {}
    /\ \E k \in PartsOf("anull") :
          /\ compiled.filter_parts[k].ins = <<abase>>
          /\ compiled.filter_parts[k].out = aout

\* The graph has a single mix node, not normalized, over all audio labels.
SingleMix ==
    /\ PartsOf("anull") = {}
    /\ Cardinality(PartsOf("amix")) = 1
    /\ \A k \in PartsOf("amix") :
          /\ compiled.filter_parts[k].ins = <<abase>> \o SourceLabels
          /\ compiled.filter_parts[k].out = aout
          /\ compiled.filter_parts[k].inputs = 1 + Len(SourceLabels)
          /\ compiled.filter_parts[k].normalize = 0

\* C30 as stated: with exactly one source besides the silent base the base is
\* passed through with no mix node; otherwise there is a single mix node, not
\* normalized, over all audio labels.
C30_PassThroughWithOneSource ==
    GraphCompiled =>
       IF Len(SourceLabels) = 1 THEN BasePassedThrough ELSE SingleMix

\* C30 (amended): with no source besides the silent base (the base is the only
\* audio label) the base is passed through with no mix node; otherwise, so
\* also with exactly one source, there is a single mix node, not normalized,
\* over all audio labels, the base among them.
C30_PassThroughWithBaseAlone ==
    GraphCompiled =>
       /\ Cardinality(MixNodes) = 1
       /\ IF SourceLabels = <<>> THEN BasePassedThrough ELSE SingleMix

\* C30 witness: a graph with exactly one source besides the base, mixed with
\* the base by a mix node of two inputs.
C30_Witness ==
    /\ epc = "200"
    /\ Len(SourceLabels) = 1
    /\ SingleMix
    /\ \E k \in PartsOf("amix") : compiled.filter_parts[k].inputs = 2

\* Text item a comes before text item b by (start, track_index, clip_index).
TextKeyLess(a, b) ==
    \/ a.clip.start < b.clip.start
    \/ a.clip.start = b.clip.start /\ a.track_index < b.track_index
    \/ /\ a.clip.start = b.clip.start /\ a.track_index = b.track_index
       /\ a.clip_index < b.clip_index

\* The place of text clip k in the order of that key (from 0).
TextRank(k) ==
    Cardinality({m \in DOMAIN TextItems : TextKeyLess(TextItems[m], TextItems[k])})

\* The text of the clip is set and not blank.
HasText(clip) == clip.text # <<>> /\ strip(clip.text[1]) # ""

\* export_project got as far as the loop over the text clips.
TextLoopReached ==
    Exported /\ compiled.reached \in {"line 319", "line 362", "line 363"}

\* The text-drawing nodes of clip k of the text clips.
DrawnFor(k) ==
    {m \in PartsOf("drawtext") :
        compiled.filter_parts[m].out = <<"vtxt", TextRank(k)>>}

\* Text clip k has one text-drawing node, with the window and the place the
\* clip resolves to when an unset end stands for start + 2.0.
DrawnAsResolved(k) ==
    LET clip == TextItems[k].clip
        start_time == Max2(0, clip.start)
        end == IF clip.end = <<>> THEN start_time + 2000 ELSE clip.end[1]
    IN  /\ Cardinality(DrawnFor(k)) = 1
        /\ \A m \in DrawnFor(k) :
              /\ compiled.filter_parts[m].from = start_time
              /\ compiled.filter_parts[m].to = Max2(start_time + 50, end)
              /\ compiled.filter_parts[m].x = clip.x
              /\ compiled.filter_parts[m].y =
                    IF clip.y = <<>> THEN height - 80 ELSE clip.y[1]

\* The text nodes are folded onto the composite in the order of the key.
TextFoldedInOrder ==
    /\ \A a, b \in PartsOf("drawtext") :
          a < b => compiled.filter_parts[a].out[2] < compiled.filter_parts[b].out[2]
    /\ \A m \in PartsOf("drawtext") :
          compiled.filter_parts[m].ins = <<CompositeBefore(m)>>

\* C31 as stated: of the text clips of an export request, one whose text is
\* empty or unset has no text-drawing node; one with text has a node whose
\* window starts at the clamped start and ends at the supplied end, at
\* start + 2.0 when the end is unset, and at least at start + 0.05, with x
\* (default 40) and y (default height - 80); the nodes are folded onto the
\* composite in the order (start, track_index, clip_index).
C31_TextClipsDrawn ==
    TextLoopReached =>
       /\ \A k \in DOMAIN TextItems :
             IF HasText(TextItems[k].clip)
             THEN DrawnAsResolved(k) ELSE DrawnFor(k) = {}
       /\ TextFoldedInOrder

\* What does hold of the text loop: when every text clip has its text and its
\* end set, the nodes are as C31 says.
C31_WithTextAndEndSet ==
    (TextLoopReached /\ \A k \in DOMAIN TextItems :
                           TextItems[k].clip.text # <<>> /\ TextItems[k].clip.end # <<>>)
       => /\ compiled.error.kind # "TypeError"
          /\ \A k \in DOMAIN TextItems :
                IF HasText(TextItems[k].clip)
                THEN DrawnAsResolved(k) ELSE DrawnFor(k) = {}
          /\ TextFoldedInOrder

\* A clip with text and no end: the handler ends with the TypeError.
C31_EndUnsetRaises ==
    /\ epc = "500"
    /\ \E k \in DOMAIN TextItems :
          HasText(TextItems[k].clip) /\ TextItems[k].clip.end = <<>>
    /\ PartsOf("drawtext") = {}

\* A clip with no text and an end: a node is drawn for it.
C31_UnsetTextDrawn ==
    /\ epc = "200"
    /\ \E k \in DOMAIN TextItems :
          TextItems[k].clip.text = <<>> /\ DrawnFor(k) # {}

\* serialize_job has returned the dict of a job.
Serialized == spc = Len(serialize_reads) + 3 /\ data.status # "no job"

\* The status, progress and stage the job has between two _update calls.
CommittedTriples ==
    {<<"queued", 0, "queued">>} \cup
    {<<IF "status" \in DOMAIN kwargs_of(call) THEN kwargs_of(call).status
        ELSE "running",
       kwargs_of(call).progress, kwargs_of(call).stage>> :
       call \in {"starting", "replicate", "local", "audio", "muxing", "completed",
                 "failed"}}

\* C32 as stated: a snapshot a reader got through get or list_recent and
\* serialized is one the job table had: its status, progress and stage are
\* those of one state of the job; it never shows completed or failed with a
\* progress under 100 or a stage that is not terminal, and never completed
\* with no output path (no download_url).
C32_SnapshotConsistent ==
    Serialized =>
       /\ <<data.status, data.progress, data.stage>> \in CommittedTriples
       /\ data.status \in Terminal =>
             data.progress = 100 /\ data.stage \in Terminal
       /\ data.status = "completed" => data.download_url # None

\* A snapshot that shows completed with the progress and the stage of the
\* mux checkpoint.
C32_TornCompleted ==
    /\ Serialized
    /\ data.status = "completed"
    /\ data.progress = 80
    /\ data.stage = "muxing"

\* A snapshot that shows completed, progress 100, and no download_url.
C32_CompletedNoDownload ==
    /\ Serialized
    /\ data.status = "completed"
    /\ data.progress = 100
    /\ data.download_url = None

\* What does hold: whenever the lock is free, the job of the table is in one
\* of these states, so a reader that kept the lock while it serialized would
\* never see a torn job.
C32_TableConsistent ==
    (shared_job # <<>> /\ lock = None) =>
       /\ <<shared_job[1].status, shared_job[1].progress, shared_job[1].stage>>
             \in CommittedTriples
       /\ shared_job[1].status = "completed" => shared_job[1].output_path # None

\* The ids the queue has been given so far, in the order they were or will be
\* handed out: those dequeued, then those waiting.
Enqueued == started \o queue

\* Job j is the one the worker has dequeued and not (yet) marked running.
JustDequeued(j) == job_id = j /\ wpc \in {"run", "except"}

\* The submit call of job j has put it in the table and not yet on the queue.
BeingSubmitted(j) == j \in DOMAIN requests /\ requests[j] = "inserted"

\* Every id in the queue is in the table; every id whose submit has returned
\* has been enqueued once, no id twice, and no id has been dequeued twice.
QueueMatchesTable ==
    /\ \A i \in DOMAIN queue : queue[i] \in DOMAIN jobs
    /\ NoRepeat(Enqueued)
    /\ Range(Enqueued) = returned
    /\ \A j \in DOMAIN jobs : j \in returned \/ BeingSubmitted(j)

\* C33 as stated: every id in the queue is in the job table, every id is
\* enqueued once and dequeued at most once, and a job with status queued is
\* in the queue or is the job the worker has just dequeued and not yet marked
\* running.
C33_QueuedIsInQueue ==
    /\ QueueMatchesTable
    /\ \A j \in DOMAIN jobs :
          jobs[j].status = "queued" => j \in Range(queue) \/ JustDequeued(j)

\* C33 (amended): every id in the queue is in the job table, every id is
\* enqueued once its submit call has passed the insert, never twice, and is
\* dequeued at most once; a job with status queued is in the queue, or is
\* the job the worker has just dequeued and not yet marked running, or is
\* still between the insert and the enqueue of its submit call.
C33_QueuedIsInQueueOrBeingSubmitted ==
    /\ QueueMatchesTable
    /\ \A j \in DOMAIN jobs :
          jobs[j].status = "queued" =>
             \/ j \in Range(queue)
             \/ JustDequeued(j)
             \/ BeingSubmitted(j)
    /\ \A j \in DOMAIN jobs :
          BeingSubmitted(j) => jobs[j].status = "queued" /\ j \notin Range(Enqueued)

\* C33 witness: two submits at once: one job waits in the queue, the other is
\* in the table and not yet enqueued.
C33_Witness ==
    /\ \E j \in DOMAIN jobs : BeingSubmitted(j) /\ jobs[j].status = "queued"
    /\ \E j \in DOMAIN jobs : j \in Range(queue) /\ jobs[j].status = "queued"

\* The parts of the graph that are active in a window of time.
Windowed == PartsOf("overlay") \cup PartsOf("drawtext")

\* C34 as stated: in every compiled project the window of every overlay node
\* and of every text-drawing node lies within 0 and the resolved output
\* duration: its start is at least 0 and its end at most the duration.
C34_WindowsWithinDuration ==
    GraphCompiled =>
       \A m \in Windowed :
          /\ compiled.filter_parts[m].from >= 0
          /\ compiled.filter_parts[m].to <= compiled.duration

\* What does hold: every window starts at 0 or later and ends after it starts.
C34_WindowsStartClamped ==
    GraphCompiled =>
       \A m \in Windowed :
          /\ compiled.filter_parts[m].from >= 0
          /\ compiled.filter_parts[m].to > compiled.filter_parts[m].from

\* An overlay whose window ends after the output does.
C34_OverlayPastEnd ==
    /\ epc = "200"
    /\ \E m \in PartsOf("overlay") : compiled.filter_parts[m].to > compiled.duration

\* A text node whose window ends after the output does.
C34_TextPastEnd ==
    /\ epc = "200"
    /\ \E m \in PartsOf("drawtext") : compiled.filter_parts[m].to > compiled.duration

====
